---- MODULE Spec2Model ----
(***************************************************************************)
(* Model of validate_renewal_lambda/lambda_function.py: the schema         *)
(* resolver, the ValidationResult report object, the eight checks of       *)
(* validate_renewal_opportunity and the lambda_handler envelope.           *)
(*                                                                         *)
(* Values of CRM records are JSON values [t, v]: t is the JSON type and v  *)
(* the payload.  Text that the code lower-cases or searches is a sequence  *)
(* of one-character strings.  Amounts are integers in thousandths.         *)
(***************************************************************************)
EXTENDS Integers, Sequences, FiniteSets, TLC

VARIABLES
    sf,            \* the CRM as this run sees it: schema, record, lookup answers
    event,         \* the Lambda event
    pc,            \* position of the handler
    calls,         \* outward requests issued so far, in order
    opp_fields,    \* field names returned by describe
    found_fields,  \* logical key -> physical field name (a dict: keys that resolved)
    opp,           \* the primary record (field name -> JSON value)
    result,        \* the ValidationResult: [checks, has_issues]
    reads,         \* arguments passed to opp.get by the checks
    raised,        \* what raised out of the handler's try block ("" if nothing)
    response,      \* the handler's return value: [statusCode, success, validation]
    contact_id     \* create-contact handler: the id create_contact returned

vars ==
    <<sf, event, pc, calls, opp_fields, found_fields, opp, result, reads, raised, response,
      contact_id>>

(***************************************************************************)
(* Bounds                                                                  *)
(***************************************************************************)
\* number of aspects in which the event and the CRM differ from the nominal run
MaxDeviations == 2
\* number of outcomes appended to a bare ValidationResult
MaxChecks == 4
\* number of field names in a schema handed to the resolver alone
MaxAvail == 2

(***************************************************************************)
(* JSON values                                                             *)
(***************************************************************************)
JNull == [t |-> "null", v |-> 0]
JTrue == [t |-> "bool", v |-> 1]
JFalse == [t |-> "bool", v |-> 0]
JStr(s) == [t |-> "str", v |-> s]
JNum(n) == [t |-> "num", v |-> n]
JText(cs) == [t |-> "text", v |-> cs]

\* Python truthiness of a JSON value: None, False, 0 and "" are falsy
Truthy(j) ==
    CASE j.t = "null" -> FALSE
      [] j.t = "bool" -> j.v = 1
      [] j.t = "num"  -> j.v # 0
      [] j.t = "str"  -> j.v # ""
      [] j.t = "text" -> Len(j.v) > 0

\* dict.get(key): None when the key is absent
Get(rec, f) == IF f \in DOMAIN rec THEN rec[f] ELSE JNull

(***************************************************************************)
(* Text: str.lower and the substring test                                  *)
(***************************************************************************)
UpperToLower ==
    [A |-> "a", B |-> "b", C |-> "c", D |-> "d", E |-> "e", F |-> "f",
     G |-> "g", H |-> "h", I |-> "i", J |-> "j", K |-> "k", L |-> "l",
     M |-> "m", N |-> "n", O |-> "o", P |-> "p", Q |-> "q", R |-> "r",
     S |-> "s", T |-> "t", U |-> "u", V |-> "v", W |-> "w", X |-> "x",
     Y |-> "y", Z |-> "z"]

LowerChar(c) == IF c \in DOMAIN UpperToLower THEN UpperToLower[c] ELSE c

Lower(cs) == [i \in 1..Len(cs) |-> LowerChar(cs[i])]

\* sub in cs
Contains(cs, sub) ==
    \E i \in 0..(Len(cs) - Len(sub)) :
        \A j \in 1..Len(sub) : cs[i + j] = sub[j]

(***************************************************************************)
(* Schema resolver (lines 133-160)                                         *)
(***************************************************************************)
base_fields ==
    <<"Id", "Name", "StageName", "AccountId", "Amount", "CloseDate", "Type",
      "IsClosed", "IsWon">>

custom_field_mappings ==
    [netsuite_id |->
        <<"NetSuite_ID__c", "NetSuiteID__c", "Netsuite_Id__c", "NS_ID__c",
          "NetSuite_Internal_ID__c">>,
     parent_sub_id |->
        <<"Parent_Subscription_ID__c", "Parent_Sub_ID__c",
          "ParentSubscriptionId__c", "Parent_Subscription__c">>,
     price_reset |-> <<"Price_Reset__c", "Is_Price_Reset__c", "PriceReset__c">>,
     auto_renewed_last_term |->
        <<"Auto_Renewed_Last_Term__c", "AutoRenewedLastTerm__c",
          "Auto_Renewal_Last_Term__c">>,
     cancelled_before_renewal |->
        <<"Cancelled_before_Renewal_Cycle__c", "Cancelled_Before_Renewal__c",
          "CancelledBeforeRenewal__c">>,
     cancellation_notice |->
        <<"Cancellation_Notice__c", "CancellationNotice__c",
          "Cancellation_Notice_Link__c">>,
     auto_renewal_clause |->
        <<"Auto_Renewal_Clause__c", "AutoRenewalClause__c", "AR_Clause__c">>,
     prev_quote_ar_clause |->
        <<"Prev_Quote_w_AR_Clause__c", "Previous_Quote_AR_Clause__c",
          "Prev_Quote_AR__c">>,
     o2c_processed |-> <<"O2C_Processed__c", "Processed_via_O2C__c", "O2C__c">>,
     subscription_id |->
        <<"SBQQ__RenewedContract__c", "Subscription__c", "Subscription_ID__c",
          "CPQ_Subscription__c">>,
     previous_quote |->
        <<"Previous_Quote__c", "Prev_Quote__c", "Prior_Quote__c",
          "SBQQ__RenewedQuote__c">>]

\* iteration order of the dict (insertion order)
KeyOrder ==
    <<"netsuite_id", "parent_sub_id", "price_reset", "auto_renewed_last_term",
      "cancelled_before_renewal", "cancellation_notice", "auto_renewal_clause",
      "prev_quote_ar_clause", "o2c_processed", "subscription_id",
      "previous_quote">>

Keys == DOMAIN custom_field_mappings

Range(s) == {s[i] : i \in DOMAIN s}

CandidateNames == UNION {Range(custom_field_mappings[k]) : k \in Keys}

\* the inner for loop with its break: index of the candidate that is taken, 0 if none
RECURSIVE ScanCandidates(_, _, _)
ScanCandidates(possible_names, i, fields) ==
    IF i > Len(possible_names) THEN 0
    ELSE IF possible_names[i] \in fields THEN i
    ELSE ScanCandidates(possible_names, i + 1, fields)

\* the loop without the break: a later candidate overwrites an earlier one
LastMatch(possible_names, fields) ==
    LET hits == {i \in 1..Len(possible_names) : possible_names[i] \in fields}
    IN IF hits = {} THEN 0 ELSE CHOOSE i \in hits : \A j \in hits : j <= i

FirstMatch(possible_names, fields) == ScanCandidates(possible_names, 1, fields)

\* the outer loop: found_fields
FoundFields(fields) ==
    LET K == {k \in Keys : FirstMatch(custom_field_mappings[k], fields) # 0}
    IN [k \in K |->
            custom_field_mappings[k][FirstMatch(custom_field_mappings[k], fields)]]

\* found_fields.values() in dict order
RECURSIVE FoundValues(_, _)
FoundValues(found, i) ==
    IF i > Len(KeyOrder) THEN <<>>
    ELSE (IF KeyOrder[i] \in DOMAIN found THEN <<found[KeyOrder[i]]>> ELSE <<>>)
         \o FoundValues(found, i + 1)

\* the selection naming the first candidate of every key, resolved or not
QueryFieldsFirstCandidates(found) ==
    base_fields \o [i \in 1..Len(KeyOrder) |-> custom_field_mappings[KeyOrder[i]][1]]

QueryFields(found) == base_fields \o FoundValues(found, 1)

\* found_fields.get(key): None (here "") when the key did not resolve
NoField == ""
FieldOf(found, k) == IF k \in DOMAIN found THEN found[k] ELSE NoField

(***************************************************************************)
(* ValidationResult (lines 91-120)                                         *)
(***************************************************************************)
Statuses == {"PASS", "FAIL", "WARNING", "SKIP", "INFO"}

NoDetails == [none |-> TRUE]

NewResult == [checks |-> <<>>, has_issues |-> FALSE]

\* add_check that forgets to raise has_issues on WARNING
add_check_fail_only(r, name, status, message, details) ==
    [checks |-> Append(r.checks,
                    [name |-> name, status |-> status, message |-> message,
                     details |-> details]),
     has_issues |-> r.has_issues \/ status = "FAIL"]

\* add_check that assigns has_issues from the last status alone
add_check_overwrites_flag(r, name, status, message, details) ==
    [checks |-> Append(r.checks,
                    [name |-> name, status |-> status, message |-> message,
                     details |-> details]),
     has_issues |-> status \in {"FAIL", "WARNING"}]

add_check(r, name, status, message, details) ==
    [checks |-> Append(r.checks,
                    [name |-> name, status |-> status, message |-> message,
                     details |-> details]),
     has_issues |-> r.has_issues \/ status \in {"FAIL", "WARNING"}]

CountStatus(checks, s) == Cardinality({i \in DOMAIN checks : checks[i].status = s})

\* to_dict whose skipped count also takes the INFO outcomes
to_dict_info_as_skipped(r) ==
    [overall_status |-> IF r.has_issues THEN "ISSUES FOUND" ELSE "ALL GOOD",
     total_checks |-> Len(r.checks),
     passed |-> CountStatus(r.checks, "PASS"),
     failed |-> CountStatus(r.checks, "FAIL"),
     warnings |-> CountStatus(r.checks, "WARNING"),
     skipped |-> CountStatus(r.checks, "SKIP") + CountStatus(r.checks, "INFO"),
     checks |-> r.checks]

to_dict(r) ==
    [overall_status |-> IF r.has_issues THEN "ISSUES FOUND" ELSE "ALL GOOD",
     total_checks |-> Len(r.checks),
     passed |-> CountStatus(r.checks, "PASS"),
     failed |-> CountStatus(r.checks, "FAIL"),
     warnings |-> CountStatus(r.checks, "WARNING"),
     skipped |-> CountStatus(r.checks, "SKIP"),
     checks |-> r.checks]

\* a message: its fixed text and the values formatted into it
Msg(text, args) == [text |-> text, args |-> args]

(***************************************************************************)
(* The event and the CRM of one run                                        *)
(***************************************************************************)
OppId == "006au000007dMheAAE"

\* "Acme Renewal", "Acme Price Reset 2024", "PRICE-RESET", "Pricereset"
NamePlain == <<"A", "c", "m", "e", " ", "R", "e", "n", "e", "w", "a", "l">>
NameReset ==
    <<"A", "c", "m", "e", " ", "P", "r", "i", "c", "e", " ", "R", "e", "s",
      "e", "t", " ", "2", "0", "2", "4">>
NameResetHyphen == <<"P", "R", "I", "C", "E", "-", "R", "E", "S", "E", "T">>
NameNoSpace == <<"P", "r", "i", "c", "e", "r", "e", "s", "e", "t">>

\* "Closed Lost", "LOST", "Cancelled", "Negotiation"
StageClosedLost == <<"C", "l", "o", "s", "e", "d", " ", "L", "o", "s", "t">>
StageLostUpper == <<"L", "O", "S", "T">>
StageCancelled == <<"C", "a", "n", "c", "e", "l", "l", "e", "d">>
StageNegotiation == <<"N", "e", "g", "o", "t", "i", "a", "t", "i", "o", "n">>

\* keys whose field is a checkbox; the other keys hold an id or a link
FlagKeys ==
    {"o2c_processed", "price_reset", "auto_renewed_last_term",
     "cancelled_before_renewal", "auto_renewal_clause"}

\* keys some check reads
CheckedKeys ==
    FlagKeys \cup {"netsuite_id", "parent_sub_id", "cancellation_notice",
                   "prev_quote_ar_clause"}

KeyOfField(f) == CHOOSE k \in Keys : f \in Range(custom_field_mappings[k])

Quote(name, status, amount) ==
    [Name |-> JStr(name), SBQQ__Status__c |-> JStr(status),
     SBQQ__NetAmount__c |-> amount]

Upsell(name) ==
    [Name |-> JStr(name), Amount |-> JNum(5000000),
     StageName |-> JStr("Proposal"), CloseDate |-> JStr("2024-12-31")]

QueryError == "SOQL query error: 500 - UNKNOWN_EXCEPTION"

QuoteAnswers ==
    [signed_equal |-> <<Quote("Q-2", "Accepted", JNum(10000000))>>,
     raise |-> <<>>,
     none |-> <<>>,
     draft_only |-> <<Quote("Q-3", "Draft", JNum(10000000))>>,
     draft_then_signed |->
        <<Quote("Q-3", "Draft", JNum(10000000)),
          Quote("Q-2", "Signed", JNum(10000020)),
          Quote("Q-1", "Approved", JNum(10000000))>>,
     signed_within |-> <<Quote("Q-2", "Approved", JNum(10000005))>>,
     signed_no_amount |-> <<Quote("Q-2", "Accepted", JNull)>>]

UpsellAnswers ==
    [none |-> <<>>,
     raise |-> <<>>,
     one |-> <<Upsell("Acme Upsell")>>,
     two |-> <<Upsell("Acme Expansion"), Upsell("Acme Add-on")>>]

EventOf ==
    [direct_with_id |-> [via |-> "direct", body |-> "object", opportunity_id |-> JStr(OppId)],
     direct_no_id |-> [via |-> "direct", body |-> "object", opportunity_id |-> JNull],
     direct_empty_id |-> [via |-> "direct", body |-> "object", opportunity_id |-> JStr("")],
     url_with_id |-> [via |-> "url", body |-> "object", opportunity_id |-> JStr(OppId)],
     url_invalid_json |-> [via |-> "url", body |-> "invalid", opportunity_id |-> JNull],
     url_non_object |-> [via |-> "url", body |-> "array", opportunity_id |-> JNull]]

\* the ways a run can differ from the nominal one: <<aspect, key, alternative>>
DevOptions ==
    {<<"event", "", e>> : e \in DOMAIN EventOf \ {"direct_with_id"}}
    \cup {<<"token", "", "raise">>}
    \cup {<<"describe", "", a>> : a \in {"raise", "404", "bare"}}
    \cup {<<"schema", k, "missing">> : k \in Keys}
    \cup {<<"value", k, "falsy">> : k \in CheckedKeys}
    \cup {<<"Name", "", a>> : a \in {"null", "reset", "reset_hyphen", "no_space"}}
    \cup {<<"StageName", "", a>> : a \in {"null", "lost_upper", "cancelled", "negotiation"}}
    \cup {<<"AccountId", "", "null">>}
    \cup {<<"Amount", "", a>> : a \in {"null", "zero"}}
    \cup {<<"primary", "", a>> : a \in {"raise", "zero"}}
    \cup {<<"sub", "", a>> : a \in {"raise", "empty"}}
    \cup {<<"quotes", "", a>> : a \in DOMAIN QuoteAnswers \ {"signed_equal"}}
    \cup {<<"upsells", "", a>> : a \in DOMAIN UpsellAnswers \ {"none"}}
    \cup {<<"outage", "", "secondary">>}

RECURSIVE SubsetsUpTo(_, _)
SubsetsUpTo(U, n) ==
    IF n = 0 THEN {{}}
    ELSE LET P == SubsetsUpTo(U, n - 1)
         IN P \cup {s \cup {x} : s \in P, x \in U}

\* at most one alternative per aspect; no value for a field the schema lacks
Consistent(D) ==
    /\ \A a, b \in D : (a[1] = b[1] /\ a[2] = b[2]) => a = b
    /\ \A a \in D : a[1] = "value" =>
            /\ <<"schema", a[2], "missing">> \notin D
            /\ <<"describe", "", "bare">> \notin D
    /\ \A a \in D : a[1] \in {"sub", "quotes", "upsells"} =>
            <<"outage", "", "secondary">> \notin D

DevSets == {D \in SubsetsUpTo(DevOptions, MaxDeviations) : Consistent(D)}

Alt(D, aspect, key, default) ==
    IF \E d \in D : d[1] = aspect /\ d[2] = key
    THEN (CHOOSE d \in D : d[1] = aspect /\ d[2] = key)[3]
    ELSE default

SchemaOf(D) ==
    Range(base_fields) \cup
    (IF Alt(D, "describe", "", "ok") = "bare" THEN {}
     ELSE UNION {Range(custom_field_mappings[k]) :
                    k \in {k \in Keys : <<"schema", k, "missing">> \notin D}})

NameValue(D) ==
    LET a == Alt(D, "Name", "", "plain")
    IN CASE a = "plain" -> JText(NamePlain)
         [] a = "null" -> JNull
         [] a = "reset" -> JText(NameReset)
         [] a = "reset_hyphen" -> JText(NameResetHyphen)
         [] a = "no_space" -> JText(NameNoSpace)

StageValue(D) ==
    LET a == Alt(D, "StageName", "", "closed_lost")
    IN CASE a = "closed_lost" -> JText(StageClosedLost)
         [] a = "null" -> JNull
         [] a = "lost_upper" -> JText(StageLostUpper)
         [] a = "cancelled" -> JText(StageCancelled)
         [] a = "negotiation" -> JText(StageNegotiation)

AmountValue(D) ==
    LET a == Alt(D, "Amount", "", "set")
    IN CASE a = "set" -> JNum(10000000)
         [] a = "null" -> JNull
         [] a = "zero" -> JNum(0)

BaseValue(D, f) ==
    CASE f = "Id" -> JStr(OppId)
      [] f = "Name" -> NameValue(D)
      [] f = "StageName" -> StageValue(D)
      [] f = "AccountId" ->
            IF Alt(D, "AccountId", "", "set") = "null" THEN JNull ELSE JStr("001A")
      [] f = "Amount" -> AmountValue(D)
      [] f = "CloseDate" -> JStr("2024-12-31")
      [] f = "Type" -> JStr("Renewal")
      [] f \in {"IsClosed", "IsWon"} -> JFalse

CustomValue(D, f) ==
    LET k == KeyOfField(f)
        falsy == <<"value", k, "falsy">> \in D
    IN IF k \in FlagKeys THEN (IF falsy THEN JFalse ELSE JTrue)
       ELSE (IF falsy THEN JNull ELSE JStr("a0X1"))

RecordOf(D) ==
    [f \in SchemaOf(D) |->
        IF f \in Range(base_fields) THEN BaseValue(D, f) ELSE CustomValue(D, f)]

\* the CRM stops answering after the primary query: every secondary lookup raises
Outage(D) == <<"outage", "", "secondary">> \in D

World(D) ==
    [token |-> Alt(D, "token", "", "ok"),
     describe |-> LET a == Alt(D, "describe", "", "ok")
                  IN IF a = "bare" THEN "ok" ELSE a,
     fields |-> SchemaOf(D),
     primary |-> Alt(D, "primary", "", "found"),
     record |-> RecordOf(D),
     sub |-> IF Outage(D) THEN "raise" ELSE Alt(D, "sub", "", "row"),
     quotes |-> LET a == IF Outage(D) THEN "raise"
                         ELSE Alt(D, "quotes", "", "signed_equal")
                IN [status |-> IF a = "raise" THEN "raise" ELSE "ok",
                    records |-> QuoteAnswers[a]],
     upsells |-> LET a == IF Outage(D) THEN "raise" ELSE Alt(D, "upsells", "", "none")
                 IN [status |-> IF a = "raise" THEN "raise" ELSE "ok",
                     records |-> UpsellAnswers[a]]]

(***************************************************************************)
(* lambda_handler envelope (lines 572-631) and the calls before the checks *)
(***************************************************************************)
\* contact_id before create_contact has returned
NoId == ""

NoValidation == [none |-> TRUE]
NoResponse == [statusCode |-> 0, success |-> FALSE, validation |-> NoValidation]

Call(method, kind, object, fields) ==
    [method |-> method, kind |-> kind, object |-> object, fields |-> fields]

\* salesforce_query issuing an update request instead of a GET
salesforce_query_patch(object, fields) == Call("PATCH", "query", object, fields)

\* salesforce_query (lines 37-54): one GET on the query endpoint
salesforce_query(object, fields) == Call("GET", "query", object, fields)

\* describe_object through salesforce_get (lines 57-80): one GET on the describe endpoint
describe_object(object) == Call("GET", "describe", object, <<>>)

\* parse_event_body: the payload, {} for undecodable JSON, a non-dict otherwise
parse_event_body(ev) ==
    IF ev.via = "url"
    THEN CASE ev.body = "object" -> [isDict |-> TRUE, opportunity_id |-> ev.opportunity_id]
           [] ev.body = "invalid" -> [isDict |-> TRUE, opportunity_id |-> JNull]
           [] ev.body = "array" -> [isDict |-> FALSE, opportunity_id |-> JNull]
    ELSE [isDict |-> TRUE, opportunity_id |-> ev.opportunity_id]

\* the except clause of lambda_handler
Respond500(cause) ==
    /\ raised' = cause
    /\ response' = [statusCode |-> 500, success |-> FALSE, validation |-> NoValidation]
    /\ pc' = "done"

\* return of validate_renewal_opportunity and the 200 response built from to_dict
Return200(r) ==
    /\ response' = [statusCode |-> 200, success |-> TRUE, validation |-> to_dict(r)]
    /\ pc' = "done"
    /\ raised' = raised

Init ==
    /\ \E D \in DevSets :
          /\ sf = World(D)
          /\ event = EventOf[Alt(D, "event", "", "direct_with_id")]
    /\ pc = "start"
    /\ calls = <<>>
    /\ opp_fields = {}
    /\ found_fields = <<>>
    /\ opp = <<>>
    /\ result = NewResult
    /\ reads = {}
    /\ raised = ""
    /\ response = NoResponse
    /\ contact_id = NoId

\* lines 595-607
Start ==
    /\ pc = "start"
    /\ LET body == parse_event_body(event)
       IN IF ~body.isDict
          THEN Respond500("body.get: not a dict")
          ELSE IF ~Truthy(body.opportunity_id)
               THEN /\ response' = [statusCode |-> 400, success |-> FALSE,
                                    validation |-> NoValidation]
                    /\ pc' = "done"
                    /\ raised' = raised
               ELSE /\ pc' = "token"
                    /\ UNCHANGED <<raised, response>>
    /\ UNCHANGED <<contact_id, sf, event, calls, opp_fields, found_fields, opp, result, reads>>

\* a token request that is issued once more after a failure
GetAccessTokenRetry ==
    /\ pc = "token"
    /\ calls' = Append(calls, Call("POST", "token", "", <<>>))
    /\ IF sf.token = "raise"
       THEN IF Len(calls) = 0
            THEN UNCHANGED <<pc, raised, response>>
            ELSE Respond500("token")
       ELSE /\ pc' = "describe"
            /\ UNCHANGED <<raised, response>>
    /\ UNCHANGED <<contact_id, sf, event, opp_fields, found_fields, opp, result, reads>>

\* get_access_token (lines 14-34, 610)
GetAccessToken ==
    /\ pc = "token"
    /\ calls' = Append(calls, Call("POST", "token", "", <<>>))
    /\ IF sf.token = "raise"
       THEN Respond500("token")
       ELSE /\ pc' = "describe"
            /\ UNCHANGED <<raised, response>>
    /\ UNCHANGED <<contact_id, sf, event, opp_fields, found_fields, opp, result, reads>>

\* get_opportunity_fields: the field names, [] when salesforce_get returned None
get_opportunity_fields(crm) == IF crm.describe = "404" THEN {} ELSE crm.fields

\* lines 126-160: result = ValidationResult(), describe, resolution
Describe ==
    /\ pc = "describe"
    /\ calls' = Append(calls, describe_object("Opportunity"))
    /\ IF sf.describe = "raise"
       THEN /\ Respond500("describe")
            /\ UNCHANGED <<opp_fields, found_fields>>
       ELSE /\ opp_fields' = get_opportunity_fields(sf)
            /\ found_fields' = FoundFields(get_opportunity_fields(sf))
            /\ pc' = "primary"
            /\ UNCHANGED <<raised, response>>
    /\ UNCHANGED <<contact_id, sf, event, opp, result, reads>>

\* the record the query returns: the selected fields of the CRM's record
Project(rec, fields) == [f \in Range(fields) \cap DOMAIN rec |-> rec[f]]

\* the not-found branch without its return: the code goes on to records[0]
PrimaryQueryNoReturn ==
    /\ pc = "primary"
    /\ calls' = Append(calls, salesforce_query("Opportunity", QueryFields(found_fields)))
    /\ CASE sf.primary = "raise" ->
                /\ Respond500("primary")
                /\ UNCHANGED <<opp, result>>
         [] sf.primary = "zero" ->
                /\ result' = add_check(result, "Opportunity Exists", "FAIL",
                                        Msg("Opportunity not found", <<OppId>>), NoDetails)
                /\ Respond500("records[0]")
                /\ UNCHANGED opp
         [] sf.primary = "found" ->
                /\ opp' = Project(sf.record, QueryFields(found_fields))
                /\ result' = add_check(result, "Opportunity Found", "INFO",
                                        Msg("Validating", <<>>),
                                        [Stage |-> Get(opp', "StageName"),
                                         Amount |-> Get(opp', "Amount"),
                                         Close_Date |-> Get(opp', "CloseDate")])
                /\ pc' = "check1"
                /\ UNCHANGED <<raised, response>>
    /\ UNCHANGED <<contact_id, sf, event, opp_fields, found_fields, reads>>

\* lines 162-176
PrimaryQuery ==
    /\ pc = "primary"
    /\ calls' = Append(calls, salesforce_query("Opportunity", QueryFields(found_fields)))
    /\ CASE sf.primary = "raise" ->
                /\ Respond500("primary")
                /\ UNCHANGED <<opp, result>>
         [] sf.primary = "zero" ->
                /\ result' = add_check(result, "Opportunity Exists", "FAIL",
                                        Msg("Opportunity not found", <<OppId>>), NoDetails)
                /\ Return200(result')
                /\ UNCHANGED opp
         [] sf.primary = "found" ->
                /\ opp' = Project(sf.record, QueryFields(found_fields))
                /\ result' = add_check(result, "Opportunity Found", "INFO",
                                        Msg("Validating", <<>>),
                                        [Stage |-> Get(opp', "StageName"),
                                         Amount |-> Get(opp', "Amount"),
                                         Close_Date |-> Get(opp', "CloseDate")])
                /\ pc' = "check1"
                /\ UNCHANGED <<raised, response>>
    /\ UNCHANGED <<contact_id, sf, event, opp_fields, found_fields, reads>>

(***************************************************************************)
(* The checks (lines 178-569)                                              *)
(***************************************************************************)
\* checks 3 and 4 in the other order
NextStepSwapped(p) ==
    CASE p = "check1" -> "check2"
      [] p = "check2" -> "check4"
      [] p = "check4" -> "check3"
      [] p = "check3" -> "check5"
      [] p = "check5" -> "check6"
      [] p = "check6" -> "check7"
      [] p = "check7" -> "check8"
      [] p = "check8" -> "discovery"

\* a section left out: check 6 is never reached
NextStepSkips(p) ==
    CASE p = "check1" -> "check2"
      [] p = "check2" -> "check3"
      [] p = "check3" -> "check4"
      [] p = "check4" -> "check5"
      [] p = "check5" -> "check7"
      [] p = "check6" -> "check7"
      [] p = "check7" -> "check8"
      [] p = "check8" -> "discovery"

\* the order of the code sections after the primary record is found
NextStep(p) ==
    CASE p = "check1" -> "check2"
      [] p = "check2" -> "check3"
      [] p = "check3" -> "check4"
      [] p = "check4" -> "check5"
      [] p = "check5" -> "check6"
      [] p = "check6" -> "check7"
      [] p = "check7" -> "check8"
      [] p = "check8" -> "discovery"

\* a lookup without its try/except: the exception leaves the check
LookupEscapesUncaught(status) == status = "raise"

\* every secondary lookup sits in try/except Exception (lines 228-250, 276-337,
\* 354-385): its failure does not leave the check
LookupEscapes(status) == FALSE

Looked(text, k) == Msg(text, custom_field_mappings[k])

\* check 1 answering FAIL for an unresolved NetSuite ID key
Check1ResultUnresolvedFails(found, rec, r) ==
    LET o2c_field == FieldOf(found, "o2c_processed")
        netsuite_field == FieldOf(found, "netsuite_id")
        name == "O2C - NetSuite ID"
    IN IF o2c_field # NoField
       THEN IF Truthy(Get(rec, o2c_field))
            THEN IF netsuite_field # NoField
                 THEN IF Truthy(Get(rec, netsuite_field))
                      THEN add_check(r, name, "PASS", Msg("NetSuite ID is populated", <<>>),
                                     [NetSuite_ID |-> Get(rec, netsuite_field)])
                      ELSE add_check(r, name, "FAIL",
                                     Msg("O2C processed but NetSuite ID is missing", <<>>),
                                     NoDetails)
                 ELSE add_check(r, name, "FAIL",
                                Looked("NetSuite ID field not found. Looked for", "netsuite_id"),
                                NoDetails)
            ELSE add_check(r, name, "SKIP", Msg("Not processed via O2C", <<>>), NoDetails)
       ELSE add_check(r, name, "SKIP",
                      Looked("O2C field not found. Looked for", "o2c_processed"), NoDetails)

\* CHECK 1 (lines 181-216)
Check1Result(found, rec, r) ==
    LET o2c_field == FieldOf(found, "o2c_processed")
        netsuite_field == FieldOf(found, "netsuite_id")
        name == "O2C - NetSuite ID"
    IN IF o2c_field # NoField
       THEN IF Truthy(Get(rec, o2c_field))
            THEN IF netsuite_field # NoField
                 THEN IF Truthy(Get(rec, netsuite_field))
                      THEN add_check(r, name, "PASS", Msg("NetSuite ID is populated", <<>>),
                                     [NetSuite_ID |-> Get(rec, netsuite_field)])
                      ELSE add_check(r, name, "FAIL",
                                     Msg("O2C processed but NetSuite ID is missing", <<>>),
                                     NoDetails)
                 ELSE add_check(r, name, "WARNING",
                                Looked("NetSuite ID field not found. Looked for", "netsuite_id"),
                                NoDetails)
            ELSE add_check(r, name, "SKIP", Msg("Not processed via O2C", <<>>), NoDetails)
       ELSE add_check(r, name, "SKIP",
                      Looked("O2C field not found. Looked for", "o2c_processed"), NoDetails)

Check1Reads(found, rec) ==
    LET o2c_field == FieldOf(found, "o2c_processed")
        netsuite_field == FieldOf(found, "netsuite_id")
    IN IF o2c_field = NoField THEN {}
       ELSE {o2c_field} \cup
            (IF Truthy(Get(rec, o2c_field)) /\ netsuite_field # NoField
             THEN {netsuite_field} ELSE {})

Check1 ==
    /\ pc = "check1"
    /\ result' = Check1Result(found_fields, opp, result)
    /\ reads' = reads \cup Check1Reads(found_fields, opp)
    /\ pc' = NextStep(pc)
    /\ UNCHANGED <<contact_id, sf, event, calls, opp_fields, found_fields, opp, raised, response>>

\* the subscription query issued for an empty id as well
Check2SubQueryIssuedUnguarded(found, rec) == FieldOf(found, "parent_sub_id") # NoField

\* CHECK 2 (lines 221-262); answer is what the subscription query did
Check2SubQueryIssued(found, rec) ==
    /\ FieldOf(found, "parent_sub_id") # NoField
    /\ Truthy(Get(rec, FieldOf(found, "parent_sub_id")))

Check2Result(found, rec, r, answer) ==
    LET parent_sub_field == FieldOf(found, "parent_sub_id")
        name == "Parent Subscription ID"
    IN IF parent_sub_field # NoField
       THEN IF Truthy(Get(rec, parent_sub_field))
            THEN CASE answer = "row" ->
                        add_check(r, name, "PASS", Msg("Parent Subscription is valid", <<>>),
                                  [Subscription_ID |-> Get(rec, parent_sub_field)])
                   [] answer = "empty" ->
                        add_check(r, name, "FAIL",
                                  Msg("Parent Subscription ID not found in system", <<>>),
                                  NoDetails)
                   [] answer = "raise" ->
                        add_check(r, name, "WARNING",
                                  Msg("Could not validate subscription", <<QueryError>>),
                                  [Parent_Sub_ID |-> Get(rec, parent_sub_field)])
            ELSE add_check(r, name, "FAIL",
                           Msg("Parent Subscription ID is not populated", <<>>), NoDetails)
       ELSE add_check(r, name, "WARNING",
                      Looked("Parent Sub ID field not found. Looked for", "parent_sub_id"),
                      NoDetails)

Check2 ==
    /\ pc = "check2"
    /\ calls' = IF Check2SubQueryIssued(found_fields, opp)
                THEN Append(calls, salesforce_query("SBQQ__Subscription__c",
                                        <<"Id", "Name", "SBQQ__Contract__c">>))
                ELSE calls
    /\ reads' = reads \cup (IF FieldOf(found_fields, "parent_sub_id") # NoField
                             THEN {FieldOf(found_fields, "parent_sub_id")} ELSE {})
    /\ IF Check2SubQueryIssued(found_fields, opp) /\ LookupEscapes(sf.sub)
       THEN /\ Respond500("subscription lookup")
            /\ UNCHANGED result
       ELSE /\ result' = Check2Result(found_fields, opp, result, sf.sub)
            /\ pc' = NextStep(pc)
            /\ UNCHANGED <<raised, response>>
    /\ UNCHANGED <<contact_id, sf, event, opp_fields, found_fields, opp>>

\* CHECK 3 (lines 267-337)
SignedStatuses == {"Accepted", "Signed", "Approved"}

\* the filter with its result in creation-ascending order
SignedQuotesOldestFirst(quotes) ==
    LET signed == SelectSeq(quotes, LAMBDA q : q.SBQQ__Status__c.t = "str"
                                               /\ q.SBQQ__Status__c.v \in SignedStatuses)
    IN [i \in 1..Len(signed) |-> signed[Len(signed) + 1 - i]]

\* [q for q in quotes if q.get('SBQQ__Status__c') in [...]]
SignedQuotes(quotes) ==
    SelectSeq(quotes, LAMBDA q : q.SBQQ__Status__c.t = "str"
                                 /\ q.SBQQ__Status__c.v \in SignedStatuses)

AbsDiff(a, b) == IF a >= b THEN a - b ELSE b - a

\* abs(float(quote_amount) - float(opp_amount)) < 0.01, amounts in thousandths
WithinTolerance(quote_amount, opp_amount) == AbsDiff(quote_amount, opp_amount) < 10

Names(records, n) ==
    [i \in 1..(IF Len(records) < n THEN Len(records) ELSE n) |-> records[i].Name]

Check3Result(rec, r, answer) ==
    LET name == "Renewal Data vs Signed Quote"
        quotes == answer.records
        signed_quotes == SignedQuotes(quotes)
    IN IF answer.status = "raise"
       THEN add_check(r, name, "SKIP", Msg("Could not query quotes", <<QueryError>>),
                      NoDetails)
       ELSE IF Len(quotes) > 0
            THEN IF Len(signed_quotes) > 0
                 THEN LET signed_quote == signed_quotes[1]
                          quote_amount == signed_quote.SBQQ__NetAmount__c
                          opp_amount == Get(rec, "Amount")
                      IN IF Truthy(quote_amount) /\ Truthy(opp_amount)
                         THEN IF WithinTolerance(quote_amount.v, opp_amount.v)
                              THEN add_check(r, name, "PASS",
                                       Msg("Opportunity amount matches signed quote", <<>>),
                                       [Quote |-> signed_quote.Name,
                                        Quote_Amount |-> quote_amount,
                                        Opp_Amount |-> opp_amount])
                              ELSE add_check(r, name, "WARNING",
                                       Msg("Amount mismatch between Opp and Quote", <<>>),
                                       [Quote |-> signed_quote.Name,
                                        Quote_Amount |-> quote_amount,
                                        Opp_Amount |-> opp_amount,
                                        Difference |-> AbsDiff(quote_amount.v, opp_amount.v)])
                         ELSE add_check(r, name, "INFO",
                                        Msg("Signed quote found", <<signed_quote.Name.v>>),
                                        [Quote_Status |-> signed_quote.SBQQ__Status__c])
                 ELSE add_check(r, name, "WARNING",
                                Msg("No signed/accepted quote found", <<>>),
                                [Available_Quotes |-> Names(quotes, 5)])
            ELSE add_check(r, name, "WARNING",
                           Msg("No quotes found for this opportunity", <<>>), NoDetails)

Check3 ==
    /\ pc = "check3"
    /\ calls' = Append(calls, salesforce_query("SBQQ__Quote__c",
                       <<"Id", "Name", "SBQQ__Status__c", "SBQQ__NetAmount__c",
                         "SBQQ__StartDate__c", "SBQQ__EndDate__c">>))
    /\ reads' = reads \cup
                (IF sf.quotes.status = "ok" /\ Len(SignedQuotes(sf.quotes.records)) > 0
                 THEN {"Amount"} ELSE {})
    /\ IF LookupEscapes(sf.quotes.status)
       THEN /\ Respond500("quote lookup")
            /\ UNCHANGED result
       ELSE /\ result' = Check3Result(opp, result, sf.quotes)
            /\ pc' = NextStep(pc)
            /\ UNCHANGED <<raised, response>>
    /\ UNCHANGED <<contact_id, sf, event, opp_fields, found_fields, opp>>

\* the details keeping the first returned opportunity only
UpsellDetailsFirstOnly(upsells) ==
    [i \in 1..(IF Len(upsells) > 0 THEN 1 ELSE 0) |->
        [Name |-> upsells[i].Name, Amount |-> upsells[i].Amount,
         Stage |-> upsells[i].StageName, Close_Date |-> upsells[i].CloseDate]]

\* CHECK 4 (lines 342-385)
UpsellDetails(upsells) ==
    [i \in 1..Len(upsells) |->
        [Name |-> upsells[i].Name, Amount |-> upsells[i].Amount,
         Stage |-> upsells[i].StageName, Close_Date |-> upsells[i].CloseDate]]

Check4Result(rec, r, answer) ==
    LET name == "Upsells in Current Term"
        upsells == answer.records
    IN IF Truthy(Get(rec, "AccountId"))
       THEN IF answer.status = "raise"
            THEN add_check(r, name, "SKIP", Msg("Could not query upsells", <<QueryError>>),
                           NoDetails)
            ELSE IF Len(upsells) > 0
                 THEN add_check(r, name, "WARNING",
                                Msg("Found open upsell/expansion opportunities", <<>>),
                                [Upsells |-> UpsellDetails(upsells)])
                 ELSE add_check(r, name, "PASS",
                                Msg("No open upsell/expansion opportunities found", <<>>),
                                NoDetails)
       ELSE r

Check4 ==
    /\ pc = "check4"
    /\ calls' = IF Truthy(Get(opp, "AccountId"))
                THEN Append(calls, salesforce_query("Opportunity",
                                        <<"Id", "Name", "Amount", "StageName", "Type",
                                          "CloseDate">>))
                ELSE calls
    /\ reads' = reads \cup {"AccountId"}
    /\ IF Truthy(Get(opp, "AccountId")) /\ LookupEscapes(sf.upsells.status)
       THEN /\ Respond500("upsell lookup")
            /\ UNCHANGED result
       ELSE /\ result' = Check4Result(opp, result, sf.upsells)
            /\ pc' = NextStep(pc)
            /\ UNCHANGED <<raised, response>>
    /\ UNCHANGED <<contact_id, sf, event, opp_fields, found_fields, opp>>

\* CHECK 5 (lines 390-430)
PriceResetSpace == <<"p", "r", "i", "c", "e", " ", "r", "e", "s", "e", "t">>
PriceResetHyphen == <<"p", "r", "i", "c", "e", "-", "r", "e", "s", "e", "t">>

\* opp.get('Name', '').lower() raises on None: the key is present with a null value
NameLowerRaises(rec) == Get(rec, "Name").t = "null"

IsLikelyPriceReset(rec) ==
    LET opp_name == Lower(Get(rec, "Name").v)
    IN Contains(opp_name, PriceResetSpace) \/ Contains(opp_name, PriceResetHyphen)

Check5Result(found, rec, r) ==
    LET price_reset_field == FieldOf(found, "price_reset")
        name == "Price Reset Checkbox"
    IN IF price_reset_field # NoField
       THEN IF IsLikelyPriceReset(rec)
            THEN IF Truthy(Get(rec, price_reset_field))
                 THEN add_check(r, name, "PASS", Msg("Price Reset checkbox is checked", <<>>),
                                NoDetails)
                 ELSE add_check(r, name, "FAIL",
                                Msg("Price Reset opportunity but checkbox is NOT checked", <<>>),
                                NoDetails)
            ELSE IF Truthy(Get(rec, price_reset_field))
                 THEN add_check(r, name, "INFO", Msg("Price Reset checkbox is checked", <<>>),
                                NoDetails)
                 ELSE add_check(r, name, "SKIP", Msg("Not a Price Reset opportunity", <<>>),
                                NoDetails)
       ELSE add_check(r, name, "SKIP",
                      Looked("Price Reset field not found. Looked for", "price_reset"),
                      NoDetails)

Check5 ==
    /\ pc = "check5"
    /\ IF NameLowerRaises(opp)
       THEN /\ Respond500("Name.lower")
            /\ reads' = reads \cup {"Name"}
            /\ UNCHANGED result
       ELSE /\ result' = Check5Result(found_fields, opp, result)
            /\ reads' = reads \cup {"Name"} \cup
                        (IF FieldOf(found_fields, "price_reset") # NoField
                         THEN {FieldOf(found_fields, "price_reset")} ELSE {})
            /\ pc' = NextStep(pc)
            /\ UNCHANGED <<raised, response>>
    /\ UNCHANGED <<contact_id, sf, event, calls, opp_fields, found_fields, opp>>

\* CHECK 6 (lines 435-450)
\* the check without its `if auto_renewed_field:` guard: always INFO
Check6ResultNoGuard(found, rec, r) ==
    add_check(r, "Auto-Renewed Last Term", "INFO",
              Msg("Auto-Renewed Last Term",
                  <<IF Truthy(Get(rec, FieldOf(found, "auto_renewed_last_term")))
                    THEN "Yes" ELSE "No">>),
              [Value |-> Get(rec, FieldOf(found, "auto_renewed_last_term"))])

Check6Result(found, rec, r) ==
    LET auto_renewed_field == FieldOf(found, "auto_renewed_last_term")
        name == "Auto-Renewed Last Term"
    IN IF auto_renewed_field # NoField
       THEN add_check(r, name, "INFO",
                      Msg("Auto-Renewed Last Term",
                          <<IF Truthy(Get(rec, auto_renewed_field)) THEN "Yes" ELSE "No">>),
                      [Value |-> Get(rec, auto_renewed_field)])
       ELSE add_check(r, name, "SKIP",
                      Looked("Field not found. Looked for", "auto_renewed_last_term"),
                      NoDetails)

Check6 ==
    /\ pc = "check6"
    /\ result' = Check6Result(found_fields, opp, result)
    /\ reads' = reads \cup (IF FieldOf(found_fields, "auto_renewed_last_term") # NoField
                             THEN {FieldOf(found_fields, "auto_renewed_last_term")} ELSE {})
    /\ pc' = NextStep(pc)
    /\ UNCHANGED <<contact_id, sf, event, calls, opp_fields, found_fields, opp, raised, response>>

\* CHECK 7 (lines 455-506)
LostStages ==
    {<<"c", "l", "o", "s", "e", "d", " ", "l", "o", "s", "t">>,
     <<"l", "o", "s", "t">>,
     <<"c", "a", "n", "c", "e", "l", "l", "e", "d">>}

\* opp.get('StageName', '').lower() raises on None
StageLowerRaises(rec) == Get(rec, "StageName").t = "null"

IsLost(rec) == Lower(Get(rec, "StageName").v) \in LostStages

NoticeIssue == "Cancellation Notice not attached"
StageIssue == "Stage is not a lost stage - should use Lost Button"

Check7Issues(found, rec) ==
    LET cancellation_notice_field == FieldOf(found, "cancellation_notice")
    IN (IF cancellation_notice_field # NoField
           /\ ~Truthy(Get(rec, cancellation_notice_field))
        THEN <<NoticeIssue>> ELSE <<>>)
       \o (IF ~IsLost(rec) THEN <<StageIssue>> ELSE <<>>)

Check7Details(found, rec) ==
    LET cancellation_notice_field == FieldOf(found, "cancellation_notice")
        hasNotice == cancellation_notice_field # NoField
                     /\ Truthy(Get(rec, cancellation_notice_field))
        keys == {"Cancelled_Before_Renewal"}
                \cup (IF hasNotice THEN {"Cancellation_Notice"} ELSE {})
                \cup (IF IsLost(rec) THEN {"Stage"} ELSE {})
    IN [k \in keys |->
          CASE k = "Cancelled_Before_Renewal" -> JTrue
            [] k = "Cancellation_Notice" -> Get(rec, cancellation_notice_field)
            [] k = "Stage" -> Get(rec, "StageName")]

Check7Result(found, rec, r) ==
    LET cancelled_field == FieldOf(found, "cancelled_before_renewal")
        name == "Cancellation Handling"
    IN IF cancelled_field # NoField
       THEN IF Truthy(Get(rec, cancelled_field))
            THEN IF Len(Check7Issues(found, rec)) > 0
                 THEN add_check(r, name, "FAIL",
                                Msg("Cancellation issues", Check7Issues(found, rec)),
                                Check7Details(found, rec))
                 ELSE add_check(r, name, "PASS",
                                Msg("Cancellation properly documented", <<>>),
                                Check7Details(found, rec))
            ELSE add_check(r, name, "SKIP", Msg("Customer did not send cancellation", <<>>),
                           NoDetails)
       ELSE add_check(r, name, "SKIP",
                      Looked("Cancellation field not found. Looked for",
                             "cancelled_before_renewal"),
                      NoDetails)

Check7Reads(found, rec) ==
    LET cancelled_field == FieldOf(found, "cancelled_before_renewal")
        cancellation_notice_field == FieldOf(found, "cancellation_notice")
    IN {"StageName"} \cup
       (IF cancelled_field = NoField THEN {}
        ELSE {cancelled_field} \cup
             (IF Truthy(Get(rec, cancelled_field)) /\ cancellation_notice_field # NoField
              THEN {cancellation_notice_field} ELSE {}))

Check7 ==
    /\ pc = "check7"
    /\ IF StageLowerRaises(opp)
       THEN /\ Respond500("StageName.lower")
            /\ reads' = reads \cup {"StageName"}
            /\ UNCHANGED result
       ELSE /\ result' = Check7Result(found_fields, opp, result)
            /\ reads' = reads \cup Check7Reads(found_fields, opp)
            /\ pc' = NextStep(pc)
            /\ UNCHANGED <<raised, response>>
    /\ UNCHANGED <<contact_id, sf, event, calls, opp_fields, found_fields, opp>>

\* CHECK 8 (lines 511-554)
\* check 8 answering SKIP for an unresolved previous-quote link key
Check8ResultUnresolvedSkips(found, rec, r) ==
    LET ar_clause_field == FieldOf(found, "auto_renewal_clause")
        prev_quote_ar_field == FieldOf(found, "prev_quote_ar_clause")
        name == "Auto-Renewal Clause"
    IN IF ar_clause_field # NoField
       THEN IF Truthy(Get(rec, ar_clause_field))
            THEN IF prev_quote_ar_field # NoField
                 THEN IF Truthy(Get(rec, prev_quote_ar_field))
                      THEN add_check(r, name, "PASS",
                               Msg("AR Clause checked and previous quote link provided", <<>>),
                               [AR_Clause |-> JTrue,
                                Prev_Quote_Link |-> Get(rec, prev_quote_ar_field)])
                      ELSE add_check(r, name, "FAIL",
                               Msg("AR Clause is checked but 'Prev Quote w/ AR Clause' link is missing",
                                   <<>>),
                               NoDetails)
                 ELSE add_check(r, name, "SKIP",
                          Msg("AR Clause is checked. Could not verify prev quote link field.",
                              <<>>),
                          [AR_Clause |-> JTrue])
            ELSE add_check(r, name, "SKIP",
                           Msg("Previous quote does not have AR clause", <<>>), NoDetails)
       ELSE add_check(r, name, "SKIP",
                      Looked("AR Clause field not found. Looked for", "auto_renewal_clause"),
                      NoDetails)

Check8Result(found, rec, r) ==
    LET ar_clause_field == FieldOf(found, "auto_renewal_clause")
        prev_quote_ar_field == FieldOf(found, "prev_quote_ar_clause")
        name == "Auto-Renewal Clause"
    IN IF ar_clause_field # NoField
       THEN IF Truthy(Get(rec, ar_clause_field))
            THEN IF prev_quote_ar_field # NoField
                 THEN IF Truthy(Get(rec, prev_quote_ar_field))
                      THEN add_check(r, name, "PASS",
                               Msg("AR Clause checked and previous quote link provided", <<>>),
                               [AR_Clause |-> JTrue,
                                Prev_Quote_Link |-> Get(rec, prev_quote_ar_field)])
                      ELSE add_check(r, name, "FAIL",
                               Msg("AR Clause is checked but 'Prev Quote w/ AR Clause' link is missing",
                                   <<>>),
                               NoDetails)
                 ELSE add_check(r, name, "WARNING",
                          Msg("AR Clause is checked. Could not verify prev quote link field.",
                              <<>>),
                          [AR_Clause |-> JTrue])
            ELSE add_check(r, name, "SKIP",
                           Msg("Previous quote does not have AR clause", <<>>), NoDetails)
       ELSE add_check(r, name, "SKIP",
                      Looked("AR Clause field not found. Looked for", "auto_renewal_clause"),
                      NoDetails)

Check8Reads(found, rec) ==
    LET ar_clause_field == FieldOf(found, "auto_renewal_clause")
        prev_quote_ar_field == FieldOf(found, "prev_quote_ar_clause")
    IN IF ar_clause_field = NoField THEN {}
       ELSE {ar_clause_field} \cup
            (IF Truthy(Get(rec, ar_clause_field)) /\ prev_quote_ar_field # NoField
             THEN {prev_quote_ar_field} ELSE {})

Check8 ==
    /\ pc = "check8"
    /\ result' = Check8Result(found_fields, opp, result)
    /\ reads' = reads \cup Check8Reads(found_fields, opp)
    /\ pc' = NextStep(pc)
    /\ UNCHANGED <<contact_id, sf, event, calls, opp_fields, found_fields, opp, raised, response>>

\* SUMMARY (lines 559-569) and the return to lambda_handler (lines 613-622)
\* the list comprehension without its filter: every key is reported missing
MissingFieldsAll(found) == KeyOrder

MissingFields(found) ==
    SelectSeq(KeyOrder, LAMBDA k : k \notin DOMAIN found)

\* the message carries len(found_fields) and len(custom_field_mappings)
FieldDiscoveryResult(found, r) ==
    add_check(r, "Field Discovery", "INFO",
              Msg("Found {} of {} expected custom fields",
                  <<Cardinality(DOMAIN found), Cardinality(DOMAIN custom_field_mappings)>>),
              [Found_Fields |-> found,
               Missing_Fields |-> MissingFields(found)])

FieldDiscovery ==
    /\ pc = "discovery"
    /\ result' = FieldDiscoveryResult(found_fields, result)
    /\ Return200(result')
    /\ UNCHANGED <<contact_id, sf, event, calls, opp_fields, found_fields, opp, reads>>

Next == Start \/ GetAccessToken \/ Describe \/ PrimaryQuery
        \/ Check1 \/ Check2 \/ Check3 \/ Check4
        \/ Check5 \/ Check6 \/ Check7 \/ Check8 \/ FieldDiscovery

Spec == Init /\ [][Next]_vars

(***************************************************************************)
(* A ValidationResult on its own: any outcomes in any order                *)
(***************************************************************************)
Idle(p) ==
    /\ sf = World({})
    /\ event = EventOf["direct_with_id"]
    /\ pc = p
    /\ calls = <<>>
    /\ opp_fields = {}
    /\ found_fields = <<>>
    /\ opp = <<>>
    /\ result = NewResult
    /\ reads = {}
    /\ raised = ""
    /\ response = NoResponse
    /\ contact_id = NoId

InitResult == Idle("result")

AddCheck ==
    /\ pc = "result"
    /\ Len(result.checks) < MaxChecks
    /\ \E status \in Statuses :
          result' = add_check(result, "Check", status, Msg("message", <<>>), NoDetails)
    /\ UNCHANGED <<contact_id, sf, event, pc, calls, opp_fields, found_fields, opp, reads, raised,
                   response>>

NextResult == AddCheck

SpecResult == InitResult /\ [][NextResult]_vars

(***************************************************************************)
(* The resolver on its own: any small schema                               *)
(***************************************************************************)
SchemaNames == CandidateNames \cup {"Name", "Other__c"}

InitResolve ==
    /\ sf = World({})
    /\ event = EventOf["direct_with_id"]
    /\ pc = "resolve"
    /\ calls = <<>>
    /\ opp_fields \in SubsetsUpTo(SchemaNames, MaxAvail)
    /\ found_fields = <<>>
    /\ opp = <<>>
    /\ result = NewResult
    /\ reads = {}
    /\ raised = ""
    /\ response = NoResponse
    /\ contact_id = NoId

Resolve ==
    /\ pc = "resolve"
    /\ found_fields' = FoundFields(opp_fields)
    /\ pc' = "resolved"
    /\ UNCHANGED <<contact_id, sf, event, calls, opp_fields, opp, result, reads, raised, response>>

ResolveAgain ==
    /\ pc = "resolved"
    /\ found_fields' = FoundFields(opp_fields)
    /\ pc' = "resolved_again"
    /\ UNCHANGED <<contact_id, sf, event, calls, opp_fields, opp, result, reads, raised, response>>

NextResolve == Resolve \/ ResolveAgain

SpecResolve == InitResolve /\ [][NextResolve]_vars

(***************************************************************************)
(* update_opportunity_stage_lambda: get or update the stage of one         *)
(* opportunity                                                             *)
(***************************************************************************)
VALID_STAGES ==
    <<"Pending", "Outreach", "Engaged", "Proposal", "Quote Follow-Up", "Finalizing",
      "Closed Won", "Closed Lost">>

\* HTTP status of each answer the CRM can give to a request
HttpStatus ==
    [record |-> 200, created |-> 201, no_content |-> 204, bad_request |-> 400,
     not_found |-> 404, server_error |-> 500]

\* salesforce_api_call: None on 204, the decoded body on other 2xx, raises on HTTPError
ApiResult(answer) ==
    IF HttpStatus[answer] >= 400 THEN "raise"
    ELSE IF HttpStatus[answer] = 204 THEN "none"
    ELSE "json"

ApiError(answer) == Msg("Salesforce API error", <<HttpStatus[answer]>>)

\* one request of salesforce_api_call
ApiCall(method, object, data) ==
    [method |-> method, kind |-> "sobject", object |-> object, data |-> data]

NoData == [none |-> TRUE]

StageValues == {JNull, JStr("")} \cup
               {JStr(st) : st \in Range(VALID_STAGES) \cup {"closed won", "Negotiation"}}

StageEvents ==
    [opportunity_id : {JNull, JStr(""), JStr(OppId)}, stage : StageValues]

StageWorlds ==
    [token : {"ok", "raise"},
     get : {"record", "no_content", "not_found", "server_error"},
     patch : {"no_content", "bad_request"},
     StageName : {JStr("Engaged"), JStr("Closed Won"), JStr("Negotiation")}]

InitStage ==
    /\ sf \in StageWorlds
    /\ event \in StageEvents
    /\ pc = "stage_start"
    /\ calls = <<>>
    /\ opp_fields = {}
    /\ found_fields = <<>>
    /\ opp = <<>>
    /\ result = NewResult
    /\ reads = {}
    /\ raised = ""
    /\ response = NoResponse
    /\ contact_id = NoId

\* a return of the handler
Answer(code, body) ==
    /\ response' = [statusCode |-> code, body |-> body]
    /\ pc' = "done"

\* the except clause: 500 with str(e)
Answer500(cause) ==
    /\ raised' = cause.text
    /\ Answer(500, [success |-> FALSE, error |-> cause])

\* lines 132-143
StageStart ==
    /\ pc = "stage_start"
    /\ IF ~Truthy(event.opportunity_id)
       THEN Answer(400, [success |-> FALSE,
                         error |-> Msg("opportunity_id is required", <<>>)])
       ELSE pc' = "stage_token" /\ UNCHANGED response
    /\ UNCHANGED <<contact_id, sf, event, calls, opp_fields, found_fields, opp, result, reads,
                   raised>>

\* line 146
StageToken ==
    /\ pc = "stage_token"
    /\ calls' = Append(calls, Call("POST", "token", "", <<>>))
    /\ IF sf.token = "raise"
       THEN Answer500(Msg("Failed to get access token", <<>>))
       ELSE pc' = "stage_get" /\ UNCHANGED <<raised, response>>
    /\ UNCHANGED <<contact_id, sf, event, opp_fields, found_fields, opp, result, reads>>

\* get_opportunity (lines 71-79)
get_opportunity(crm) ==
    [Id |-> JStr(OppId), Name |-> JStr("Acme Renewal"), StageName |-> crm.StageName]

\* lines 149-158
StageGet ==
    /\ pc = "stage_get"
    /\ calls' = Append(calls, ApiCall("GET", "Opportunity", NoData))
    /\ CASE ApiResult(sf.get) = "raise" ->
                /\ Answer500(ApiError(sf.get))
                /\ UNCHANGED opp
         [] ApiResult(sf.get) = "none" ->
                /\ Answer(404, [success |-> FALSE,
                                error |-> Msg("Opportunity {} not found",
                                              <<event.opportunity_id.v>>)])
                /\ UNCHANGED <<opp, raised>>
         [] ApiResult(sf.get) = "json" ->
                /\ opp' = get_opportunity(sf)
                /\ pc' = "stage_decide"
                /\ UNCHANGED <<raised, response>>
    /\ UNCHANGED <<contact_id, sf, event, opp_fields, found_fields, result, reads>>

\* the decision without the test for a stage equal to the current one
StageDecideNoSameTest ==
    /\ pc = "stage_decide"
    /\ LET current_stage == opp.StageName
           opp_name == opp.Name
           new_stage == event.stage
       IN IF ~Truthy(new_stage)
          THEN Answer(200, [success |-> TRUE, action |-> "get",
                            opportunity_id |-> event.opportunity_id,
                            opportunity_name |-> opp_name,
                            current_stage |-> current_stage,
                            valid_stages |-> VALID_STAGES])
          ELSE IF new_stage.v \notin Range(VALID_STAGES)
               THEN Answer(400, [success |-> FALSE,
                                 error |-> Msg("Invalid stage", <<new_stage.v>>),
                                 valid_stages |-> VALID_STAGES])
               ELSE pc' = "stage_update" /\ UNCHANGED response
    /\ UNCHANGED <<contact_id, sf, event, calls, opp_fields, found_fields, opp, result, reads,
                   raised>>

\* lines 160-200
StageDecide ==
    /\ pc = "stage_decide"
    /\ LET current_stage == opp.StageName
           opp_name == opp.Name
           new_stage == event.stage
       IN IF ~Truthy(new_stage)
          THEN Answer(200, [success |-> TRUE, action |-> "get",
                            opportunity_id |-> event.opportunity_id,
                            opportunity_name |-> opp_name,
                            current_stage |-> current_stage,
                            valid_stages |-> VALID_STAGES])
          ELSE IF new_stage.v \notin Range(VALID_STAGES)
               THEN Answer(400, [success |-> FALSE,
                                 error |-> Msg("Invalid stage", <<new_stage.v>>),
                                 valid_stages |-> VALID_STAGES])
               ELSE IF current_stage = new_stage
                    THEN Answer(200, [success |-> TRUE, action |-> "update",
                                      opportunity_id |-> event.opportunity_id,
                                      opportunity_name |-> opp_name,
                                      current_stage |-> new_stage,
                                      message |-> Msg("Opportunity is already at stage",
                                                      <<new_stage.v>>)])
                    ELSE pc' = "stage_update" /\ UNCHANGED response
    /\ UNCHANGED <<contact_id, sf, event, calls, opp_fields, found_fields, opp, result, reads,
                   raised>>

\* update_opportunity_stage (lines 82-91) and lines 203-216
StageUpdate ==
    /\ pc = "stage_update"
    /\ calls' = Append(calls, ApiCall("PATCH", "Opportunity", [StageName |-> event.stage]))
    /\ IF ApiResult(sf.patch) = "raise"
       THEN /\ Answer500(ApiError(sf.patch))
            /\ UNCHANGED sf
       ELSE /\ sf' = [sf EXCEPT !.StageName = event.stage]
            /\ Answer(200, [success |-> TRUE, action |-> "update",
                            opportunity_id |-> event.opportunity_id,
                            opportunity_name |-> opp.Name,
                            previous_stage |-> opp.StageName,
                            new_stage |-> event.stage,
                            message |-> Msg("Stage updated", <<opp.StageName.v, event.stage.v>>)])
            /\ UNCHANGED raised
    /\ UNCHANGED <<contact_id, event, opp_fields, found_fields, opp, result, reads>>

NextStage == StageStart \/ StageToken \/ StageGet \/ StageDecide \/ StageUpdate

SpecStage == InitStage /\ [][NextStage]_vars

(***************************************************************************)
(* create_primary_contact_lambda: create a Contact and link it to an       *)
(* opportunity                                                             *)
(***************************************************************************)
NewContactId == "003NEW"
NewRoleId == "00KNEW"

TextFalse == <<"f", "a", "l", "s", "e">>
TextTrueUpper == <<"T", "R", "U", "E">>

\* the parsed body; an absent lastname or firstname is '', an absent primary is True
ContactEvents ==
    [isDict : {TRUE},
     opportunity_id : {JNull, JStr(""), JStr(OppId)},
     firstname : {JStr(""), JStr("John")},
     lastname : {JNull, JStr(""), JStr("Doe")},
     primary : {JTrue, JFalse, JText(TextFalse), JText(TextTrueUpper)}]
    \cup
    [isDict : {FALSE}, opportunity_id : {JNull}, firstname : {JStr("")},
     lastname : {JStr("")}, primary : {JTrue}]

ContactWorlds ==
    [token : {"ok", "raise"},
     get : {"record", "no_content", "not_found"},
     AccountId : {JNull, JStr("001A")},
     create : {"created", "bad_request"},
     role : {"created", "bad_request"},
     contacts : {<<[Id |-> "003OLD", data |-> [LastName |-> JStr("Old")]]>>},
     roles : {<<>>}]

InitContact ==
    /\ sf \in ContactWorlds
    /\ event \in ContactEvents
    /\ pc = "contact_start"
    /\ calls = <<>>
    /\ opp_fields = {}
    /\ found_fields = <<>>
    /\ opp = <<>>
    /\ result = NewResult
    /\ reads = {}
    /\ raised = ""
    /\ response = NoResponse
    /\ contact_id = NoId

\* lines 152-153: a string is true when its lower case is 'true'
is_primary(body) ==
    IF body.primary.t = "text"
    THEN (IF Lower(body.primary.v) = <<"t", "r", "u", "e">> THEN JTrue ELSE JFalse)
    ELSE body.primary

\* lines 175-181 and 190-191
contact_data(body, account_id) ==
    LET keys == {"LastName"}
                \cup (IF Truthy(body.firstname) THEN {"FirstName"} ELSE {})
                \cup (IF Truthy(account_id) THEN {"AccountId"} ELSE {})
    IN [k \in keys |->
          CASE k = "LastName" -> body.lastname
            [] k = "FirstName" -> body.firstname
            [] k = "AccountId" -> account_id]

\* role data without the id of the created Contact
role_data_no_contact(opportunity_id, contact, primary) ==
    [OpportunityId |-> opportunity_id, ContactId |-> NoId, IsPrimary |-> primary]

\* lines 84-91, role=None
role_data(opportunity_id, contact, primary) ==
    [OpportunityId |-> opportunity_id, ContactId |-> contact, IsPrimary |-> primary]

\* lines 142-172
ContactStart ==
    /\ pc = "contact_start"
    /\ IF ~event.isDict
       THEN Answer500(Msg("body.get: not a dict", <<>>))
       ELSE IF ~Truthy(event.opportunity_id)
            THEN /\ Answer(400, [success |-> FALSE,
                                 error |-> Msg("opportunity_id is required", <<>>)])
                 /\ UNCHANGED raised
            ELSE IF ~Truthy(event.lastname)
                 THEN /\ Answer(400, [success |-> FALSE,
                                      error |-> Msg("lastname is required", <<>>)])
                      /\ UNCHANGED raised
                 ELSE pc' = "contact_token" /\ UNCHANGED <<raised, response>>
    /\ UNCHANGED <<contact_id, sf, event, calls, opp_fields, found_fields, opp, result, reads>>

\* line 184
ContactToken ==
    /\ pc = "contact_token"
    /\ calls' = Append(calls, Call("POST", "token", "", <<>>))
    /\ IF sf.token = "raise"
       THEN Answer500(Msg("Failed to get access token", <<>>))
       ELSE pc' = "contact_lookup" /\ UNCHANGED <<raised, response>>
    /\ UNCHANGED <<contact_id, sf, event, opp_fields, found_fields, opp, result, reads>>

\* get_opportunity_account (lines 71-79, 187): result.get raises on None
ContactLookup ==
    /\ pc = "contact_lookup"
    /\ calls' = Append(calls, ApiCall("GET", "Opportunity", NoData))
    /\ CASE ApiResult(sf.get) = "raise" ->
                /\ Answer500(ApiError(sf.get))
                /\ UNCHANGED opp
         [] ApiResult(sf.get) = "none" ->
                /\ Answer500(Msg("result.get: None", <<>>))
                /\ UNCHANGED opp
         [] ApiResult(sf.get) = "json" ->
                /\ opp' = [AccountId |-> sf.AccountId, Name |-> JStr("Acme Renewal")]
                /\ pc' = "create_contact"
                /\ UNCHANGED <<raised, response>>
    /\ UNCHANGED <<contact_id, sf, event, opp_fields, found_fields, result, reads>>

\* create_contact (lines 59-68, 190-194)
CreateContact ==
    /\ pc = "create_contact"
    /\ LET data == contact_data(event, opp.AccountId)
       IN /\ calls' = Append(calls, ApiCall("POST", "Contact", data))
          /\ IF ApiResult(sf.create) = "raise"
             THEN /\ Answer500(ApiError(sf.create))
                  /\ UNCHANGED <<sf, contact_id>>
             ELSE /\ sf' = [sf EXCEPT !.contacts =
                                Append(@, [Id |-> NewContactId, data |-> data])]
                  /\ contact_id' = NewContactId
                  /\ pc' = "create_role"
                  /\ UNCHANGED <<raised, response>>
    /\ UNCHANGED <<event, opp_fields, found_fields, opp, result, reads>>

\* create_opportunity_contact_role (lines 82-100, 197-219)
CreateRole ==
    /\ pc = "create_role"
    /\ LET data == role_data(event.opportunity_id, contact_id, is_primary(event))
       IN /\ calls' = Append(calls, ApiCall("POST", "OpportunityContactRole", data))
          /\ IF ApiResult(sf.role) = "raise"
             THEN /\ Answer500(ApiError(sf.role))
                  /\ UNCHANGED sf
             ELSE /\ sf' = [sf EXCEPT !.roles = Append(@, [Id |-> NewRoleId, data |-> data])]
                  /\ Answer(200, [success |-> TRUE,
                                  contact_id |-> contact_id,
                                  opportunity_contact_role_id |-> NewRoleId,
                                  opportunity_name |-> opp.Name,
                                  is_primary |-> is_primary(event)])
                  /\ UNCHANGED raised
    /\ UNCHANGED <<contact_id, event, opp_fields, found_fields, opp, result, reads>>

NextContact == ContactStart \/ ContactToken \/ ContactLookup \/ CreateContact \/ CreateRole

SpecContact == InitContact /\ [][NextContact]_vars

(***************************************************************************)
(* Properties                                                              *)
(***************************************************************************)
HasIssueOutcome(checks) ==
    \E i \in DOMAIN checks : checks[i].status \in {"FAIL", "WARNING"}

\* C1: to_dict reports 'ISSUES FOUND' exactly when some appended outcome is
\* FAIL or WARNING, and 'ALL GOOD' otherwise, after any sequence of add_check calls.
C1_OverallStatus ==
    /\ to_dict(result).overall_status \in {"ISSUES FOUND", "ALL GOOD"}
    /\ to_dict(result).overall_status = "ISSUES FOUND" <=> HasIssueOutcome(result.checks)

C1_Witness ==
    /\ pc = "result"
    /\ Len(result.checks) >= 2
    /\ result.checks[1].status = "PASS"
    /\ \E i \in DOMAIN result.checks : result.checks[i].status = "WARNING"
    /\ \A i \in DOMAIN result.checks : result.checks[i].status # "FAIL"
    /\ to_dict(result).overall_status = "ISSUES FOUND"

\* C2: each key resolves to the earliest candidate of its list that the schema
\* has, a key is absent from the map exactly when the schema has none of its
\* candidates, and resolving again gives the same map.
C2_FirstMatchWins ==
    pc \in {"resolved", "resolved_again"} =>
        \A k \in Keys :
            LET c == custom_field_mappings[k]
            IN /\ k \in DOMAIN found_fields <=> \E i \in 1..Len(c) : c[i] \in opp_fields
               /\ k \in DOMAIN found_fields =>
                    \E i \in 1..Len(c) :
                        /\ found_fields[k] = c[i]
                        /\ c[i] \in opp_fields
                        /\ \A j \in 1..(i - 1) : c[j] \notin opp_fields

C2_Witness ==
    /\ pc = "resolved_again"
    /\ {"NetSuiteID__c", "NS_ID__c"} \subseteq opp_fields
    /\ "NetSuite_ID__c" \notin opp_fields
    /\ found_fields["netsuite_id"] = "NetSuiteID__c"
    /\ "parent_sub_id" \notin DOMAIN found_fields

PrimaryQueried == Len(calls) >= 3
ZeroRecords == PrimaryQueried /\ sf.primary = "zero"
RecordFound == PrimaryQueried /\ sf.primary = "found"
ReportReturned == response.statusCode = 200

CheckNames ==
    <<"O2C - NetSuite ID", "Parent Subscription ID", "Renewal Data vs Signed Quote",
      "Upsells in Current Term", "Price Reset Checkbox", "Auto-Renewed Last Term",
      "Cancellation Handling", "Auto-Renewal Clause">>

DefinitionOrder == CheckNames \o <<"Field Discovery">>

Occurrences(checks, name) == {i \in DOMAIN checks : checks[i].name = name}

\* C3: when the primary query returns no record, the run ends at once with a
\* report of exactly one outcome, a FAIL, and overall status 'ISSUES FOUND'; no
\* check has run, no secondary lookup was issued, no Field Discovery was appended.
C3_NotFoundReport ==
    ZeroRecords =>
        /\ pc = "done"
        /\ ReportReturned
        /\ response.validation.total_checks = 1
        /\ response.validation.checks = result.checks
        /\ Len(result.checks) = 1
        /\ result.checks[1].status = "FAIL"
        /\ response.validation.overall_status = "ISSUES FOUND"
        /\ Len(calls) = 3
        /\ reads = {}
        /\ \A n \in Range(DefinitionOrder) : Occurrences(result.checks, n) = {}

C3_Witness ==
    /\ ZeroRecords
    /\ pc = "done"
    /\ "parent_sub_id" \in DOMAIN found_fields
    /\ response.validation.failed = 1

C5_EveryCheckOnce ==
    (RecordFound /\ ReportReturned) =>
        \A n \in Range(CheckNames) :
            Cardinality(Occurrences(response.validation.checks, n)) = 1

OrderIndex(name) == CHOOSE i \in DOMAIN DefinitionOrder : DefinitionOrder[i] = name

\* C6: the outcomes present in the report appear in check definition order,
\* whichever branch each check takes and whichever lookups fail.
C6_DefinitionOrder ==
    \A i, j \in DOMAIN result.checks :
        (/\ i < j
         /\ result.checks[i].name \in Range(DefinitionOrder)
         /\ result.checks[j].name \in Range(DefinitionOrder))
        => OrderIndex(result.checks[i].name) < OrderIndex(result.checks[j].name)

C6_Witness ==
    /\ ReportReturned
    /\ RecordFound
    /\ sf.upsells.status = "raise"
    /\ Len(result.checks) = 10
    /\ result.checks[10].name = "Field Discovery"
    /\ result.checks[4].name = "Renewal Data vs Signed Quote"

Queried(object) ==
    \E i \in DOMAIN calls : i > 3 /\ calls[i].kind = "query" /\ calls[i].object = object

SubLookupFailed == sf.sub = "raise" /\ Queried("SBQQ__Subscription__c")
QuoteLookupFailed == sf.quotes.status = "raise" /\ Queried("SBQQ__Quote__c")
UpsellLookupFailed == sf.upsells.status = "raise" /\ Queried("Opportunity")

LookupCauses == {"subscription lookup", "quote lookup", "upsell lookup"}

\* exactly one outcome of that check, SKIP or WARNING, with the error text in it
DowngradedOutcome(name) ==
    /\ Cardinality(Occurrences(result.checks, name)) = 1
    /\ \A i \in Occurrences(result.checks, name) :
          /\ result.checks[i].status \in {"SKIP", "WARNING"}
          /\ QueryError \in Range(result.checks[i].message.args)

\* C7: a failing subscription, quote or upsell lookup never leaves the run: the
\* check appends one SKIP or WARNING outcome carrying the error text, the checks
\* after it run, and the report is returned.
C7_LookupFailureContained ==
    /\ raised \notin LookupCauses
    /\ SubLookupFailed =>
          DowngradedOutcome("Parent Subscription ID") /\ pc \notin {"check1", "check2"}
    /\ QuoteLookupFailed =>
          DowngradedOutcome("Renewal Data vs Signed Quote")
          /\ pc \notin {"check1", "check2", "check3"}
    /\ UpsellLookupFailed =>
          DowngradedOutcome("Upsells in Current Term")
          /\ pc \notin {"check1", "check2", "check3", "check4"}
    /\ ((SubLookupFailed \/ QuoteLookupFailed \/ UpsellLookupFailed)
         /\ pc = "done" /\ raised = "") =>
          /\ ReportReturned
          /\ response.validation.checks = result.checks
          /\ \A n \in {"Price Reset Checkbox", "Auto-Renewed Last Term",
                        "Cancellation Handling", "Auto-Renewal Clause",
                        "Field Discovery"} :
                Cardinality(Occurrences(result.checks, n)) = 1

C7_Witness ==
    /\ SubLookupFailed
    /\ QuoteLookupFailed
    /\ UpsellLookupFailed
    /\ ReportReturned
    /\ response.validation.warnings = 1
    /\ response.validation.skipped >= 2

\* the logical keys each check depends on
DependsOn ==
    [n \in Range(CheckNames) |->
        CASE n = "O2C - NetSuite ID" -> {"o2c_processed", "netsuite_id"}
          [] n = "Parent Subscription ID" -> {"parent_sub_id"}
          [] n = "Price Reset Checkbox" -> {"price_reset"}
          [] n = "Auto-Renewed Last Term" -> {"auto_renewed_last_term"}
          [] n = "Cancellation Handling" ->
                {"cancelled_before_renewal", "cancellation_notice"}
          [] n = "Auto-Renewal Clause" -> {"auto_renewal_clause", "prev_quote_ar_clause"}
          [] OTHER -> {}]

\* C8: a check with an unresolved dependent key (gating or secondary) emits SKIP
\* or WARNING, never PASS or FAIL, and the record is never read through an
\* unresolved key.
C8_UnresolvedNeverPassFail ==
    /\ NoField \notin reads
    /\ \A i \in DOMAIN result.checks :
          LET c == result.checks[i]
          IN (c.name \in Range(CheckNames)
              /\ \E k \in DependsOn[c.name] : k \notin DOMAIN found_fields)
             => c.status \in {"SKIP", "WARNING"}

DescribeIssued == Len(calls) >= 2
DescribeNoFieldList == DescribeIssued /\ sf.describe \in {"raise", "404"}

\* C9: when describe does not yield the field list (an error or a not-found
\* response), the run is aborted: no primary query, no check, no report.
C9_DescribeFailureFatal ==
    DescribeNoFieldList =>
        /\ pc = "done"
        /\ Len(calls) = 2
        /\ result.checks = <<>>
        /\ response.statusCode = 500

IdMissing == ~Truthy(parse_event_body(event).opportunity_id)

TransportRaised ==
    \/ Len(calls) >= 1 /\ sf.token = "raise"
    \/ Len(calls) >= 2 /\ sf.describe = "raise"
    \/ Len(calls) >= 3 /\ sf.primary = "raise"

\* C10: the status code is 400 exactly when opportunity_id is missing or empty
\* (and then nothing was requested), 500 exactly when the token request, describe
\* or the primary query raised, and 200 otherwise; a record that is not found
\* gives 200 with a single FAIL outcome.
C10_StatusCode ==
    pc = "done" =>
        /\ response.statusCode = 400 <=> IdMissing
        /\ response.statusCode = 400 => calls = <<>>
        /\ response.statusCode = 500 <=> TransportRaised
        /\ response.statusCode \in {200, 400, 500}
        /\ ZeroRecords =>
              /\ response.statusCode = 200
              /\ response.validation.total_checks = 1
              /\ response.validation.failed = 1

\* C11: once the primary record is found the run ends with a report, for every
\* record content (Name and StageName may be null): no check raises out of the
\* run and the checks after a failing one still run.
C11_AlwaysAReport ==
    (RecordFound /\ pc = "done") =>
        /\ raised = ""
        /\ ReportReturned
        /\ result.checks[Len(result.checks)].name = "Field Discovery"

LastOutcome(checks) == checks[Len(checks)]

\* C12: when the primary record is found the report ends with the INFO outcome
\* 'Field Discovery'; its found mapping and its list of missing keys partition
\* the 11 logical keys, the reported count is the size of the found mapping and
\* every physical name in it is a field of the schema.
C12_FieldDiscovery ==
    (RecordFound /\ ReportReturned) =>
        LET fd == LastOutcome(response.validation.checks)
            found == fd.details.Found_Fields
            missing == fd.details.Missing_Fields
        IN /\ fd.name = "Field Discovery"
           /\ fd.status = "INFO"
           /\ Cardinality(Occurrences(response.validation.checks, "Field Discovery")) = 1
           /\ Cardinality(Keys) = 11
           /\ DOMAIN found \cup Range(missing) = Keys
           /\ DOMAIN found \cap Range(missing) = {}
           /\ Len(missing) = Cardinality(Range(missing))
           /\ fd.message.args = <<Cardinality(DOMAIN found), 11>>
           /\ \A k \in DOMAIN found :
                 /\ found[k] \in opp_fields
                 /\ found[k] \in Range(custom_field_mappings[k])

C12_Witness ==
    /\ RecordFound
    /\ ReportReturned
    /\ LastOutcome(response.validation.checks).name = "Field Discovery"
    /\ Cardinality(DOMAIN found_fields) = 9
    /\ Len(LastOutcome(response.validation.checks).details.Missing_Fields) = 2

\* the schema as describe returned it has none of the candidate names
NoCustomFields == DescribeIssued /\ sf.describe # "raise" /\ opp_fields \cap CandidateNames = {}

\* the checks that depend on a custom field
DependentChecks == {n \in Range(CheckNames) : DependsOn[n] # {}}

\* C13 as claimed: with no candidate field in the schema and the record found,
\* Field Discovery reports 0 of 11 and every dependent check has status SKIP.
C13_AllSkip ==
    (RecordFound /\ NoCustomFields /\ ReportReturned) =>
        /\ LastOutcome(result.checks).message.args = <<0, 11>>
        /\ \A n \in DependentChecks :
              /\ Occurrences(result.checks, n) # {}
              /\ \A i \in Occurrences(result.checks, n) : result.checks[i].status = "SKIP"

\* C13 amended: with no candidate field in the schema and the record found,
\* Field Discovery reports 0 of 11; O2C - NetSuite ID, Price Reset Checkbox,
\* Auto-Renewed Last Term, Cancellation Handling and Auto-Renewal Clause have
\* status SKIP and Parent Subscription ID has status WARNING.
C13_SkipOrWarn ==
    (RecordFound /\ NoCustomFields) =>
        /\ \A i \in DOMAIN result.checks :
              result.checks[i].name \in DependentChecks =>
                  result.checks[i].status =
                      IF result.checks[i].name = "Parent Subscription ID"
                      THEN "WARNING" ELSE "SKIP"
        /\ ReportReturned =>
              /\ LastOutcome(result.checks).name = "Field Discovery"
              /\ LastOutcome(result.checks).message.args = <<0, 11>>
              /\ LastOutcome(result.checks).details.Found_Fields = <<>>
              /\ \A n \in DependentChecks :
                    Cardinality(Occurrences(result.checks, n)) = 1

C13_Witness ==
    /\ RecordFound
    /\ NoCustomFields
    /\ ReportReturned
    /\ sf.describe = "ok"
    /\ response.validation.skipped >= 5
    /\ Len(LastOutcome(result.checks).details.Missing_Fields) = 11

\* C14: a check evaluated with a dependent key unresolved emits SKIP or WARNING
\* and its message names the candidate field names tried for that key, for
\* every dependent key of every check.
C14_DriftReported ==
    \A i \in DOMAIN result.checks :
        LET c == result.checks[i]
        IN c.name \in Range(CheckNames) =>
              \A k \in DependsOn[c.name] :
                  k \notin DOMAIN found_fields =>
                      /\ c.status \in {"SKIP", "WARNING"}
                      /\ Range(custom_field_mappings[k]) \subseteq Range(c.message.args)

RECURSIVE Tally(_, _)
Tally(checks, status) ==
    IF checks = <<>> THEN 0
    ELSE (IF Head(checks).status = status THEN 1 ELSE 0) + Tally(Tail(checks), status)

\* C15: to_dict reports the number of outcomes as total_checks and the number
\* of PASS, FAIL, WARNING and SKIP outcomes as passed, failed, warnings and
\* skipped; the difference between the total and their sum is the number of INFO
\* outcomes, so they sum to the total only when there is no INFO outcome.
C15_Counts ==
    LET d == to_dict(result)
        sum == d.passed + d.failed + d.warnings + d.skipped
    IN /\ d.total_checks = Len(result.checks)
       /\ d.checks = result.checks
       /\ d.passed = Tally(result.checks, "PASS")
       /\ d.failed = Tally(result.checks, "FAIL")
       /\ d.warnings = Tally(result.checks, "WARNING")
       /\ d.skipped = Tally(result.checks, "SKIP")
       /\ d.total_checks - sum = Tally(result.checks, "INFO")
       /\ sum = d.total_checks <=> Tally(result.checks, "INFO") = 0

C15_Witness ==
    /\ pc = "result"
    /\ Len(result.checks) >= 3
    /\ to_dict(result).skipped = 1
    /\ to_dict(result).passed = 1
    /\ Tally(result.checks, "INFO") >= 1
    /\ to_dict(result).total_checks >
            to_dict(result).passed + to_dict(result).failed
            + to_dict(result).warnings + to_dict(result).skipped

IsPrefix(a, b) == Len(a) <= Len(b) /\ SubSeq(b, 1, Len(a)) = a

\* C16: in every step of a run the outcome sequence before the step is a prefix
\* of the sequence after it, and has_issues, once true, stays true.
C16_AppendOnly ==
    [][/\ IsPrefix(result.checks, result'.checks)
       /\ result.has_issues => result'.has_issues]_vars

C16_Witness ==
    /\ result.has_issues
    /\ Len(result.checks) >= 5
    /\ result.checks[3].status \in {"FAIL", "WARNING"}
    /\ result.checks[5].status = "PASS"
    /\ LastOutcome(result.checks).status \in {"PASS", "SKIP", "INFO"}

ReadRequest(c) == c.method = "GET" /\ c.kind \in {"describe", "query"}

\* C17: every request issued after the token request (describe, primary query,
\* subscription, quote and upsell queries) is a read, and no step of a run
\* changes the CRM, whatever the outcomes are.
C17_ReadOnly ==
    [][/\ sf' = sf
       /\ \A i \in DOMAIN calls' : calls'[i].kind # "token" => ReadRequest(calls'[i])]_vars

C17_Witness ==
    /\ ReportReturned
    /\ RecordFound
    /\ Len(calls) = 6
    /\ {calls[i].object : i \in 2..6} =
            {"Opportunity", "SBQQ__Subscription__c", "SBQQ__Quote__c"}
    /\ result.has_issues

OutcomesNamed(name) == {i \in DOMAIN result.checks : result.checks[i].name = name}

NoticeMissing ==
    \/ "cancellation_notice" \notin DOMAIN found_fields
    \/ ~Truthy(opp[found_fields["cancellation_notice"]])

ExpectedCancellationIssues ==
    (IF NoticeMissing THEN <<NoticeIssue>> ELSE <<>>)
    \o (IF Lower(opp["StageName"].v) \notin LostStages THEN <<StageIssue>> ELSE <<>>)

\* C18: Cancellation Handling is SKIP when the cancelled-before-renewal key is
\* unresolved or its flag is false; with the flag true the issues are "notice not
\* attached" exactly when the notice field is unresolved or empty and "stage
\* mismatch" exactly when the lower-cased stage is not a lost stage, the outcome
\* being FAIL listing all issues when there is one and PASS when there is none.
C18_CancellationHandling ==
    \A i \in OutcomesNamed("Cancellation Handling") :
        LET c == result.checks[i]
        IN IF \/ "cancelled_before_renewal" \notin DOMAIN found_fields
              \/ ~Truthy(opp[found_fields["cancelled_before_renewal"]])
           THEN c.status = "SKIP"
           ELSE IF ExpectedCancellationIssues = <<>>
                THEN c.status = "PASS"
                ELSE c.status = "FAIL" /\ c.message.args = ExpectedCancellationIssues

IsSigned(q) == q.SBQQ__Status__c \in {JStr("Accepted"), JStr("Signed"), JStr("Approved")}

\* the position of the most recently created accepted quote, 0 when there is none
FirstSigned(quotes) ==
    IF \E i \in DOMAIN quotes : IsSigned(quotes[i])
    THEN CHOOSE i \in DOMAIN quotes :
            IsSigned(quotes[i]) /\ \A j \in 1..(i - 1) : ~IsSigned(quotes[j])
    ELSE 0

\* the quote an outcome reports: its Quote detail, or the name in an INFO message
ReportedQuote(c) ==
    IF "Quote" \in DOMAIN c.details THEN c.details.Quote
    ELSE IF c.status = "INFO" /\ Len(c.message.args) = 1 THEN JStr(c.message.args[1])
    ELSE JNull

\* C19: Renewal Data vs Signed Quote is SKIP when the quote query raises,
\* WARNING when the list is empty or holds no quote with status Accepted, Signed
\* or Approved; otherwise the quote it reports is the first one of the list with
\* such a status.
C19_QuoteSelection ==
    \A i \in OutcomesNamed("Renewal Data vs Signed Quote") :
        LET c == result.checks[i]
            quotes == sf.quotes.records
        IN IF sf.quotes.status = "raise"
           THEN c.status = "SKIP"
           ELSE IF quotes = <<>>
                THEN c.status = "WARNING" /\ c.details = NoDetails
                ELSE IF FirstSigned(quotes) = 0
                     THEN /\ c.status = "WARNING"
                          /\ "Available_Quotes" \in DOMAIN c.details
                          /\ ReportedQuote(c) = JNull
                     ELSE /\ ReportedQuote(c) = quotes[FirstSigned(quotes)].Name
                          /\ c.status \in {"PASS", "WARNING", "INFO"}
                          /\ c.status # "INFO" =>
                                c.details.Quote_Amount =
                                    quotes[FirstSigned(quotes)].SBQQ__NetAmount__c

C19_Witness ==
    /\ ReportReturned
    /\ Len(sf.quotes.records) = 3
    /\ FirstSigned(sf.quotes.records) = 2
    /\ \E i \in OutcomesNamed("Renewal Data vs Signed Quote") :
            /\ result.checks[i].status = "WARNING"
            /\ result.checks[i].details.Quote = JStr("Q-2")

\* C20: with a signed quote found and both amounts present (0 included) the
\* outcome is PASS when the amounts differ by less than 0.01 and WARNING, with
\* both amounts and the difference in the details, when they differ by more;
\* it is INFO exactly when one of the amounts is missing.
C20_AmountComparison ==
    \A i \in OutcomesNamed("Renewal Data vs Signed Quote") :
        (sf.quotes.status = "ok" /\ FirstSigned(sf.quotes.records) # 0) =>
            LET c == result.checks[i]
                quote_amount == sf.quotes.records[FirstSigned(sf.quotes.records)].SBQQ__NetAmount__c
                opp_amount == opp["Amount"]
            IN IF quote_amount = JNull \/ opp_amount = JNull
               THEN c.status = "INFO"
               ELSE /\ c.status # "INFO"
                    /\ AbsDiff(quote_amount.v, opp_amount.v) < 10 => c.status = "PASS"
                    /\ AbsDiff(quote_amount.v, opp_amount.v) > 10 =>
                          /\ c.status = "WARNING"
                          /\ c.details.Quote_Amount = quote_amount
                          /\ c.details.Opp_Amount = opp_amount
                          /\ c.details.Difference = AbsDiff(quote_amount.v, opp_amount.v)

SubscriptionLookups ==
    Cardinality({j \in DOMAIN calls : calls[j].object = "SBQQ__Subscription__c"})

\* C21: Parent Subscription ID is WARNING when its key is unresolved and FAIL
\* when the field is resolved but empty, with no subscription lookup issued in
\* either case; with the field populated exactly one lookup is issued and the
\* outcome is PASS for a row, FAIL for no rows and WARNING when it raises.
C21_ParentSubscription ==
    \A i \in OutcomesNamed("Parent Subscription ID") :
        LET c == result.checks[i]
        IN IF "parent_sub_id" \notin DOMAIN found_fields
           THEN c.status = "WARNING" /\ SubscriptionLookups = 0
           ELSE IF opp[found_fields["parent_sub_id"]] \in {JNull, JStr("")}
                THEN c.status = "FAIL" /\ SubscriptionLookups = 0
                ELSE /\ SubscriptionLookups = 1
                     /\ sf.sub = "row" => c.status = "PASS"
                     /\ sf.sub = "empty" => c.status = "FAIL"
                     /\ sf.sub = "raise" => c.status = "WARNING"

C21_Witness ==
    /\ RecordFound
    /\ ReportReturned
    /\ "parent_sub_id" \in DOMAIN found_fields
    /\ opp[found_fields["parent_sub_id"]] = JNull
    /\ SubscriptionLookups = 0
    /\ \E i \in OutcomesNamed("Parent Subscription ID") : result.checks[i].status = "FAIL"

O2CFlagTrue ==
    /\ "o2c_processed" \in DOMAIN found_fields
    /\ opp[found_fields["o2c_processed"]] = JTrue

\* C22 as stated: O2C - NetSuite ID is SKIP when the flag field is unresolved or
\* the flag is false, PASS when the flag is true and the identifier is
\* populated, FAIL when the flag is true and the identifier is empty, and its
\* status is always one of SKIP, PASS, FAIL.
C22_ThreeStatuses ==
    \A i \in OutcomesNamed("O2C - NetSuite ID") :
        LET c == result.checks[i]
        IN /\ c.status \in {"SKIP", "PASS", "FAIL"}
           /\ ~O2CFlagTrue => c.status = "SKIP"
           /\ (O2CFlagTrue /\ "netsuite_id" \in DOMAIN found_fields) =>
                 c.status = IF opp[found_fields["netsuite_id"]] \in {JNull, JStr("")}
                            THEN "FAIL" ELSE "PASS"

\* C22 amended: as above, and WARNING naming the candidate names when the flag
\* is true and the NetSuite identifier key is unresolved; the status is always
\* one of SKIP, PASS, FAIL, WARNING.
C22_FourStatuses ==
    \A i \in OutcomesNamed("O2C - NetSuite ID") :
        LET c == result.checks[i]
        IN IF ~O2CFlagTrue THEN c.status = "SKIP"
           ELSE IF "netsuite_id" \notin DOMAIN found_fields
                THEN /\ c.status = "WARNING"
                     /\ c.message.args = custom_field_mappings["netsuite_id"]
                ELSE IF opp[found_fields["netsuite_id"]] \in {JNull, JStr("")}
                     THEN c.status = "FAIL"
                     ELSE c.status = "PASS"

C22_Witness ==
    /\ RecordFound
    /\ ReportReturned
    /\ O2CFlagTrue
    /\ "netsuite_id" \notin DOMAIN found_fields
    /\ \E i \in OutcomesNamed("O2C - NetSuite ID") : result.checks[i].status = "WARNING"

Check5Evaluated == "Name" \in reads

NameHeuristic ==
    opp["Name"].t = "text" /\ opp["Name"].v \in {NameReset, NameResetHyphen}

\* C23: once check 5 has been evaluated there is one Price Reset Checkbox
\* outcome: SKIP when the price-reset key is unresolved, whatever the name;
\* otherwise PASS for heuristic and checkbox true, FAIL for heuristic and
\* checkbox false or absent, INFO for no heuristic and checkbox true, SKIP for
\* no heuristic and checkbox false.
C23_PriceReset ==
    Check5Evaluated =>
        /\ Cardinality(OutcomesNamed("Price Reset Checkbox")) = 1
        /\ \A i \in OutcomesNamed("Price Reset Checkbox") :
              LET c == result.checks[i]
              IN IF "price_reset" \notin DOMAIN found_fields
                 THEN c.status = "SKIP"
                 ELSE LET checked == opp[found_fields["price_reset"]] = JTrue
                      IN c.status =
                           IF NameHeuristic
                           THEN (IF checked THEN "PASS" ELSE "FAIL")
                           ELSE (IF checked THEN "INFO" ELSE "SKIP")

ARClauseTrue ==
    /\ "auto_renewal_clause" \in DOMAIN found_fields
    /\ opp[found_fields["auto_renewal_clause"]] = JTrue

\* C24: Auto-Renewal Clause is SKIP when the AR-clause key is unresolved or its
\* flag is false; with the flag true it is WARNING when the previous-quote link
\* key is unresolved, FAIL when that field is resolved but empty and PASS when
\* it is populated.
C24_AutoRenewalClause ==
    \A i \in OutcomesNamed("Auto-Renewal Clause") :
        LET c == result.checks[i]
        IN IF ~ARClauseTrue THEN c.status = "SKIP"
           ELSE IF "prev_quote_ar_clause" \notin DOMAIN found_fields
                THEN c.status = "WARNING"
                ELSE IF opp[found_fields["prev_quote_ar_clause"]] \in {JNull, JStr("")}
                     THEN c.status = "FAIL"
                     ELSE c.status = "PASS"

C24_Witness ==
    /\ RecordFound
    /\ ReportReturned
    /\ ARClauseTrue
    /\ "prev_quote_ar_clause" \notin DOMAIN found_fields
    /\ \E i \in OutcomesNamed("Auto-Renewal Clause") : result.checks[i].status = "WARNING"

\* C25: Upsells in Current Term is SKIP when the upsell query raises, PASS when
\* it returns no opportunity, and WARNING when it returns some, the details
\* listing each returned opportunity in order, at most 10; never FAIL or INFO.
C25_Upsells ==
    \A i \in OutcomesNamed("Upsells in Current Term") :
        LET c == result.checks[i]
            upsells == sf.upsells.records
        IN /\ c.status \in {"WARNING", "PASS", "SKIP"}
           /\ IF sf.upsells.status = "raise" THEN c.status = "SKIP"
              ELSE IF upsells = <<>> THEN c.status = "PASS"
              ELSE /\ c.status = "WARNING"
                   /\ Len(c.details.Upsells) = Len(upsells)
                   /\ Len(c.details.Upsells) <= 10
                   /\ \A j \in DOMAIN upsells :
                         /\ c.details.Upsells[j].Name = upsells[j].Name
                         /\ c.details.Upsells[j].Amount = upsells[j].Amount
                         /\ c.details.Upsells[j].Stage = upsells[j].StageName
                         /\ c.details.Upsells[j].Close_Date = upsells[j].CloseDate

C25_Witness ==
    /\ ReportReturned
    /\ sf.upsells.status = "ok"
    /\ Len(sf.upsells.records) = 2
    /\ \E i \in OutcomesNamed("Upsells in Current Term") :
            /\ result.checks[i].status = "WARNING"
            /\ Len(result.checks[i].details.Upsells) = 2

PrimarySelection == calls[3].fields

\* C26: the primary query selects the 9 base fields followed by exactly the
\* resolved physical names: each is in the schema's field list, no candidate
\* name that did not resolve is selected, and no name is selected twice.
C26_QuerySelection ==
    PrimaryQueried =>
        LET custom == SubSeq(PrimarySelection, Len(base_fields) + 1, Len(PrimarySelection))
            resolved == {found_fields[k] : k \in DOMAIN found_fields}
        IN /\ Len(base_fields) = 9
           /\ SubSeq(PrimarySelection, 1, 9) = base_fields
           /\ Range(custom) = resolved
           /\ Range(custom) \subseteq opp_fields
           /\ Range(PrimarySelection) \cap CandidateNames \subseteq resolved
           /\ Len(PrimarySelection) = 9 + Cardinality(DOMAIN found_fields)
           /\ Cardinality(Range(PrimarySelection)) = Len(PrimarySelection)

C26_Witness ==
    /\ PrimaryQueried
    /\ Cardinality(DOMAIN found_fields) = 9
    /\ Len(PrimarySelection) = 18
    /\ opp_fields \cap CandidateNames # {found_fields[k] : k \in DOMAIN found_fields}

CallRank(c) ==
    CASE c.kind = "token" -> 1
      [] c.kind = "describe" -> 2
      [] c.object = "SBQQ__Subscription__c" -> 4
      [] c.object = "SBQQ__Quote__c" -> 5
      [] OTHER -> 0

\* the place of call i in the fixed order; an Opportunity query is the primary
\* query at position 3 and the upsell listing after it
RankAt(i) ==
    IF CallRank(calls[i]) # 0 THEN CallRank(calls[i])
    ELSE IF i = 3 THEN 3 ELSE 6

CallOrder ==
    /\ \A i \in DOMAIN calls : i <= 3 => RankAt(i) = i
    /\ \A i, j \in DOMAIN calls : i < j => RankAt(i) < RankAt(j)
    /\ (\E i \in DOMAIN calls : RankAt(i) = 6) => \E j \in DOMAIN calls : RankAt(j) = 5
    /\ Len(calls) > 3 => sf.primary = "found"
    /\ sf.token = "raise" => Len(calls) <= 1
    /\ sf.describe = "raise" => Len(calls) <= 2
    /\ sf.primary = "raise" => Len(calls) <= 3
    /\ (\E i \in DOMAIN calls : RankAt(i) = 4) =>
            /\ "parent_sub_id" \in DOMAIN found_fields
            /\ opp[found_fields["parent_sub_id"]] \notin {JNull, JStr("")}
    /\ result.checks # <<>> => Len(calls) >= 3 /\ sf.primary # "raise"
    /\ \A i \in DOMAIN result.checks :
            result.checks[i].name # "Opportunity Exists" => RecordFound

\* C27: the calls of a run are issued one at a time in the order token,
\* describe, primary query, then, only for a found record, subscription lookup,
\* quote listing, upsell listing, each at most once; a failed call is not
\* re-issued, the subscription lookup needs a resolved and populated field, and
\* no check outcome exists before the primary query has returned a record.
C27_CallOrder ==
    [][/\ CallOrder'
       /\ \/ calls' = calls
          \/ \E c \in {calls'[Len(calls')]} : calls' = Append(calls, c)]_vars

C27_Witness ==
    /\ pc = "done"
    /\ Len(calls) = 6
    /\ [i \in 1..6 |-> RankAt(i)] = <<1, 2, 3, 4, 5, 6>>
    /\ Len(result.checks) = 10

Patches == {i \in DOMAIN calls : calls[i].method = "PATCH"}

StageFetched ==
    /\ Truthy(event.opportunity_id)
    /\ sf.token = "ok"
    /\ sf.get = "record"

\* C28: when the update-stage handler has returned, it has issued a PATCH if and
\* only if opportunity_id is present, the opportunity was fetched, a stage was
\* supplied, is in VALID_STAGES and differs from the fetched stage; there is at
\* most one PATCH and it carries the requested stage; without a stage the answer
\* is the 'get' response, an invalid stage gives 400 and a valid stage equal to
\* the current one 200, all three leaving the CRM as it was.
C28_WriteOnlyWhenNeeded ==
    /\ Cardinality(Patches) <= 1
    /\ \A i \in Patches : calls[i].data = [StageName |-> event.stage]
    /\ pc = "done" =>
          /\ Patches # {} <=>
                /\ StageFetched
                /\ event.stage \in {JStr(VALID_STAGES[n]) : n \in 1..8}
                /\ event.stage # opp.StageName
          /\ (StageFetched /\ event.stage \in {JNull, JStr("")}) =>
                /\ response.statusCode = 200
                /\ response.body.action = "get"
                /\ response.body.current_stage = sf.StageName
          /\ (StageFetched /\ event.stage \in {JStr("closed won"), JStr("Negotiation")}) =>
                response.statusCode = 400
          /\ (StageFetched /\ event.stage = opp.StageName
              /\ event.stage \in {JStr(VALID_STAGES[n]) : n \in 1..8}) =>
                /\ response.statusCode = 200
                /\ response.body.current_stage = sf.StageName
          /\ (StageFetched /\ Patches = {}) => sf.StageName = opp.StageName
          /\ sf.StageName # event.stage => (Patches = {} \/ response.statusCode = 500)

C28_Witness ==
    /\ pc = "done"
    /\ Cardinality(Patches) = 1
    /\ response.statusCode = 200
    /\ response.body.action = "update"
    /\ sf.StageName = event.stage
    /\ opp.StageName # event.stage

\* C29: when the opportunity does not exist in the CRM (the point lookup is
\* answered 404) the update-stage handler answers 404 with the error
\* 'Opportunity <id> not found' and issues no PATCH.
C29_NotFound ==
    (pc = "done" /\ Truthy(event.opportunity_id) /\ sf.token = "ok"
     /\ HttpStatus[sf.get] = 404) =>
        /\ response.statusCode = 404
        /\ response.body.error = Msg("Opportunity {} not found", <<event.opportunity_id.v>>)
        /\ Patches = {}

CallsTo(object) == {i \in DOMAIN calls : calls[i].kind = "sobject" /\ calls[i].object = object}

ContactsCreated == {sf.contacts[i].Id : i \in 2..Len(sf.contacts)}

ContactOrder ==
    /\ Len(calls) <= 4
    /\ CallsTo("Opportunity") \subseteq {2}
    /\ CallsTo("Contact") \subseteq {3}
    /\ CallsTo("OpportunityContactRole") \subseteq {4}
    /\ \A i \in DOMAIN calls : calls[i].method \in {"GET", "POST"}
    /\ \A i \in DOMAIN calls : calls[i].method = "GET" <=> i = 2
    /\ CallsTo("Contact") # {} =>
          /\ event.opportunity_id \notin {JNull, JStr("")}
          /\ event.lastname \notin {JNull, JStr("")}
          /\ sf.token = "ok"
          /\ HttpStatus[sf.get] = 200
    /\ ContactsCreated # {} <=> (CallsTo("Contact") # {} /\ HttpStatus[sf.create] = 201)
    /\ CallsTo("OpportunityContactRole") # {} =>
          /\ Cardinality(ContactsCreated) = 1
          /\ calls[4].data.ContactId \in ContactsCreated
          /\ calls[4].data.OpportunityId = event.opportunity_id
    /\ response.statusCode = 200 =>
          /\ Cardinality(ContactsCreated) = 1
          /\ Len(sf.roles) = 1
          /\ sf.roles[1].data.ContactId \in ContactsCreated
          /\ response.body.contact_id \in ContactsCreated
    /\ (pc = "done" /\ CallsTo("OpportunityContactRole") # {} /\ HttpStatus[sf.role] >= 400) =>
          /\ response.statusCode = 500
          /\ Cardinality(ContactsCreated) = 1
          /\ sf.roles = <<>>

\* C30: the create-contact handler calls the CRM in the order opportunity
\* lookup, Contact creation, role creation; a Contact is created only for a
\* non-empty opportunity_id and lastname after a successful lookup; the role is
\* created after the Contact and carries the id of the Contact created in this
\* invocation; 200 is answered only when both exist; when the role creation
\* fails the answer is 500 and the Contact stays, no step ever removing one.
C30_ContactThenRole ==
    [][/\ ContactOrder'
       /\ IsPrefix(calls, calls')
       /\ IsPrefix(sf.contacts, sf'.contacts)]_vars

C30_Witness ==
    /\ pc = "done"
    /\ Len(calls) = 4
    /\ HttpStatus[sf.role] >= 400
    /\ response.statusCode = 500
    /\ ContactsCreated = {NewContactId}
    /\ contact_id = NewContactId

====
